---- MODULE Spec2Model ----
(***************************************************************************)
(* Model of the struktos CLI generation engine: the field definition       *)
(* parser, the name validators, the naming transforms and the generate     *)
(* command handlers.  Strings are sequences of one-character strings so    *)
(* that trimming, splitting and case conversion are computed character by  *)
(* character, as the JavaScript string methods in the source compute them. *)
(***************************************************************************)
EXTENDS Integers, Sequences, FiniteSets, TLC

VARIABLES
    pc,            \* "start" before the call, "done" after it
    fn,            \* the function or command handler that was called
    segs,          \* how the text input was assembled (segment descriptors)
    input,         \* the string argument handed to the function
    env,           \* command options and the state of the working directory
    out,           \* what the call returned or threw
    files,         \* files written by a command handler: records of path and content
    console,       \* diagnostics written with console.warn, in order
    templateCache, \* the module-level Map of compiled templates
    renderers,     \* the TemplateRenderer instances constructed so far
    history        \* the render and cache calls made so far, in order

engine == <<templateCache, renderers, history>>

vars == <<pc, fn, segs, input, env, out, files, console, engine>>

----------------------------------------------------------------------------
(* Bounds of the model *)

MaxSegs == 3
MaxNameLen == 3
MaxPathSegs == 3
MaxOverrides == 2
MaxCalls == 4

----------------------------------------------------------------------------
(* JavaScript string primitives *)

Lower == {"a","b","c","d","e","f","g","h","i","j","k","l","m",
          "n","o","p","q","r","s","t","u","v","w","x","y","z"}
Upper == {"A","B","C","D","E","F","G","H","I","J","K","L","M",
          "N","O","P","Q","R","S","T","U","V","W","X","Y","Z"}
Digit == {"0","1","2","3","4","5","6","7","8","9"}
Letter == Lower \cup Upper

\* white space as String.prototype.trim and the regex class \s see it
WhiteSpace == {" ", "\t", "\n"}

\* the regex class \w
WordChar == Letter \cup Digit \cup {"_"}

RECURSIVE trimStart(_)
trimStart(s) ==
    IF s = <<>> THEN s
    ELSE IF Head(s) \in WhiteSpace THEN trimStart(Tail(s)) ELSE s

RECURSIVE trimEnd(_)
trimEnd(s) ==
    IF s = <<>> THEN s
    ELSE IF s[Len(s)] \in WhiteSpace THEN trimEnd(SubSeq(s, 1, Len(s) - 1)) ELSE s

trim(s) == trimEnd(trimStart(s))

\* s.split(sep) for a one-character separator: always at least one piece
RECURSIVE splitFrom(_, _, _)
splitFrom(s, sep, cur) ==
    IF s = <<>> THEN <<cur>>
    ELSE IF Head(s) = sep THEN <<cur>> \o splitFrom(Tail(s), sep, <<>>)
    ELSE splitFrom(Tail(s), sep, Append(cur, Head(s)))

split(s, sep) == splitFrom(s, sep, <<>>)

endsWith(s, suffix) ==
    /\ Len(s) >= Len(suffix)
    /\ SubSeq(s, Len(s) - Len(suffix) + 1, Len(s)) = suffix

dropLastTwo(s) == IF Len(s) < 2 THEN <<>> ELSE SubSeq(s, 1, Len(s) - 2)

\* s.slice(0, -1)
dropLast(s) == IF s = <<>> THEN s ELSE SubSeq(s, 1, Len(s) - 1)

----------------------------------------------------------------------------
(* Outcome of a call: a returned value or a thrown Error *)

Undefined == <<"undefined">>

NoError == [msg |-> "none", token |-> <<>>]
NotCalled == [threw |-> FALSE, value |-> <<>>, error |-> [msg |-> "not called", token |-> <<>>]]
Returned(v) == [threw |-> FALSE, value |-> v, error |-> NoError]
Threw(m, t) == [threw |-> TRUE, value |-> Undefined, error |-> [msg |-> m, token |-> t]]

----------------------------------------------------------------------------
(* Field Definition Parser: src/utils/fieldParser.ts *)

validTypes == { <<"s", "t", "r", "i", "n", "g">>, <<"n", "u", "m", "b", "e", "r">>, <<"b", "o", "o", "l", "e", "a", "n">>, <<"D", "a", "t", "e">>, <<"a", "n", "y">>, <<"u", "n", "k", "n", "o", "w", "n">> }

\* validateType(type): TRUE when it returns, FALSE when it throws
validateType(type) == type \in validTypes

\* destructuring [name, typeWithOptional] = trimmed.split(':')
secondPiece(pieces) == IF Len(pieces) >= 2 THEN pieces[2] ELSE Undefined

\* JavaScript !x for a string or undefined
falsy(x) == x = <<>> \/ x = Undefined

\* the callback of input.split(',').map(...) applied to one segment
parseFieldNeverOptional(field) ==
    LET trimmed == trim(field)
        pieces == split(trimmed, ":")
        name == pieces[1]
        typeWithOptional == secondPiece(pieces)
    IN  IF falsy(name) \/ falsy(typeWithOptional)
        THEN Threw("Invalid field format", trimmed)
        ELSE LET optional == endsWith(typeWithOptional, <<"?">>)
                 type == IF optional THEN dropLast(typeWithOptional) ELSE typeWithOptional
             IN  IF ~validateType(type)
                 THEN Threw("Invalid type", type)
                 ELSE Returned([name |-> trim(name), type |-> trim(type), optional |-> FALSE])

parseField(field) ==
    LET trimmed == trim(field)
        pieces == split(trimmed, ":")
        name == pieces[1]
        typeWithOptional == secondPiece(pieces)
    IN  IF falsy(name) \/ falsy(typeWithOptional)
        THEN Threw("Invalid field format", trimmed)
        ELSE LET optional == endsWith(typeWithOptional, <<"?">>)
                 type == IF optional THEN dropLast(typeWithOptional) ELSE typeWithOptional
             IN  IF ~validateType(type)
                 THEN Threw("Invalid type", type)
                 ELSE Returned([name |-> trim(name), type |-> trim(type), optional |-> optional])

RECURSIVE mapFieldsSkipBad(_)
mapFieldsSkipBad(parts) ==
    IF parts = <<>> THEN Returned(<<>>)
    ELSE LET first == parseField(Head(parts))
             rest == mapFieldsSkipBad(Tail(parts))
         IN  IF first.threw THEN rest
             ELSE Returned(<<first.value>> \o rest.value)

\* Array.prototype.map with a throwing callback: the first throw ends the call
RECURSIVE mapFields(_)
mapFields(parts) ==
    IF parts = <<>> THEN Returned(<<>>)
    ELSE LET first == parseField(Head(parts))
         IN  IF first.threw THEN first
             ELSE LET rest == mapFields(Tail(parts))
                  IN  IF rest.threw THEN rest
                      ELSE Returned(<<first.value>> \o rest.value)

parseFields(str) ==
    IF trim(str) = <<>> THEN Returned(<<>>)
    ELSE mapFields(split(str, ","))

----------------------------------------------------------------------------
(* Earlier revision of the parser kept in the repository *)

\* pair.split(':').map(s => s.trim())
trimAll(pieces) == [i \in 1..Len(pieces) |-> trim(pieces[i])]

RECURSIVE parsePairs(_)
parsePairs(pairs) ==
    IF pairs = <<>> THEN Returned(<<>>)
    ELSE LET pair == Head(pairs)
             pieces == trimAll(split(pair, ":"))
             name == pieces[1]
             typeWithOptional == secondPiece(pieces)
         IN  IF pair = <<>> THEN parsePairs(Tail(pairs))
             ELSE IF falsy(name) \/ falsy(typeWithOptional)
             THEN Threw("Invalid field definition", pair)
             ELSE LET optional == endsWith(typeWithOptional, <<"?">>)
                      type == IF optional THEN dropLast(typeWithOptional) ELSE typeWithOptional
                  IN  IF type \notin validTypes
                      THEN Threw("Invalid type", type)
                      ELSE LET rest == parsePairs(Tail(pairs))
                           IN  IF rest.threw THEN rest
                               ELSE Returned(<<[name |-> name, type |-> type,
                                                optional |-> optional]>> \o rest.value)

parseFields_legacy(fieldsInput) ==
    IF fieldsInput = <<>> \/ Len(trim(fieldsInput)) = 0 THEN Returned(<<>>)
    ELSE parsePairs(trimAll(split(fieldsInput, ",")))

----------------------------------------------------------------------------
(* Inputs of the parser: comma-joined segments.  A segment descriptor      *)
(* records the pieces a segment was assembled from.                        *)

Seg(pre, name, gap1, colon, gap2, type, opt, extra, post) ==
    [pre |-> pre, name |-> name, gap1 |-> gap1, colon |-> colon, gap2 |-> gap2,
     type |-> type, opt |-> opt, extra |-> extra, post |-> post]

E == <<>>
SP == <<" ">>
COLON == <<":">>
QM == <<"?">>

SegmentSet == {
    Seg(E,  <<"a">>,   E,  COLON, E,  <<"s", "t", "r", "i", "n", "g">>, E,  E, E),      \* a:string
    Seg(E,  <<"i", "d">>,  E,  COLON, E,  <<"D", "a", "t", "e">>,   QM, E, E),      \* id:Date?
    Seg(E,  <<"b">>,   E,  COLON, E,  <<"a", "n", "y">>,    E,  E, E),      \* b:any
    Seg(SP, <<"a">>,   E,  COLON, E,  <<"s", "t", "r", "i", "n", "g">>, E,  E, E),      \* " a:string"
    Seg(E,  <<"a">>,   E,  COLON, E,  <<"s", "t", "r", "i", "n", "g">>, E,  E, SP),     \* "a:string "
    Seg(E,  <<"a">>,   SP, COLON, E,  <<"s", "t", "r", "i", "n", "g">>, E,  E, E),      \* "a :string"
    Seg(E,  <<"a">>,   E,  COLON, SP, <<"s", "t", "r", "i", "n", "g">>, E,  E, E),      \* "a: string"
    Seg(SP, <<"i", "d">>,  SP, COLON, SP, <<"D", "a", "t", "e">>,   QM, E, SP),     \* " id : Date? "
    Seg(E,  E,      E,  E,     E,  E,         E,  E, E),      \* ""
    Seg(SP, E,      E,  E,     E,  E,         E,  E, E),      \* " "
    Seg(E,  <<"a">>,   E,  E,     E,  E,         E,  E, E),      \* a
    Seg(E,  <<"a">>,   E,  COLON, E,  E,         E,  E, E),      \* a:
    Seg(E,  E,      E,  COLON, E,  <<"s", "t", "r", "i", "n", "g">>, E,  E, E),      \* :string
    Seg(E,  <<"a">>,   E,  COLON, E,  <<"b", "o", "g", "u", "s">>,  E,  E, E),      \* a:bogus
    Seg(E,  <<"a">>,   E,  COLON, E,  <<"S", "t", "r", "i", "n", "g">>, QM, E, E),      \* a:String?
    Seg(E,  <<"a">>,   E,  COLON, E,  E,         QM, E, E),      \* a:?
    Seg(E,  <<"1", "x">>,  E,  COLON, E,  <<"s", "t", "r", "i", "n", "g">>, E,  E, E),      \* 1x:string
    Seg(E,  <<"a", " ", "b">>, E,  COLON, E,  <<"n", "u", "m", "b", "e", "r">>, E,  E, E),      \* a b:number
    Seg(E,  <<"a">>,   E,  COLON, E,  <<"s", "t", "r", "i", "n", "g">>, E,  <<":", "x">>, E)   \* a:string:x
}

segmentText(d) ==
    d.pre \o d.name \o d.gap1 \o d.colon \o d.gap2 \o d.type \o d.opt \o d.extra \o d.post

RECURSIVE joinSegments(_)
joinSegments(ds) ==
    IF ds = <<>> THEN <<>>
    ELSE IF Len(ds) = 1 THEN segmentText(ds[1])
    ELSE segmentText(ds[1]) \o <<",">> \o joinSegments(Tail(ds))

SegmentLists == UNION { [1..n -> SegmentSet] : n \in 0..MaxSegs }

NoEnv == [withPort |-> FALSE, isProject |-> FALSE, templates |-> {}]
NoFiles == {}

\* new Map(): no key is bound
EmptyCache == <<>>

----------------------------------------------------------------------------
(* Specification of the field parser: one call on one input *)

InitFields ==
    /\ pc = "start"
    /\ fn = "none"
    /\ segs \in SegmentLists
    /\ input = joinSegments(segs)
    /\ env = NoEnv
    /\ out = NotCalled
    /\ files = NoFiles
    /\ console = <<>>
    /\ templateCache = EmptyCache
    /\ renderers = <<>>
    /\ history = <<>>

ParseFields ==
    /\ pc = "start"
    /\ pc' = "done"
    /\ fn' = "parseFields"
    /\ out' = parseFields(input)
    /\ UNCHANGED <<segs, input, env, files, console, engine>>

ParseFieldsLegacy ==
    /\ pc = "start"
    /\ pc' = "done"
    /\ fn' = "parseFields_legacy"
    /\ out' = parseFields_legacy(input)
    /\ UNCHANGED <<segs, input, env, files, console, engine>>

NextFields == ParseFields \/ ParseFieldsLegacy

SpecFields == InitFields /\ [][NextFields]_vars
----------------------------------------------------------------------------
(* Properties of the field parser *)

\* the identifier grammar [A-Za-z][A-Za-z0-9]* of the data model
IsIdentifier(s) ==
    /\ s # <<>>
    /\ s[1] \in Letter
    /\ \A i \in 2..Len(s) : s[i] \in Letter \cup Digit

TypeEnum == { <<"s", "t", "r", "i", "n", "g">>, <<"n", "u", "m", "b", "e", "r">>, <<"b", "o", "o", "l", "e", "a", "n">>, <<"D", "a", "t", "e">>, <<"a", "n", "y">>, <<"u", "n", "k", "n", "o", "w", "n">> }

\* a segment that is empty once trimmed
IsBlankSegment(d) ==
    d.name = E /\ d.colon = E /\ d.type = E /\ d.opt = E /\ d.extra = E

\* name:type or name:type? with spaces allowed around the segment and the ':'
IsWellFormedSegment(d) ==
    /\ IsIdentifier(d.name)
    /\ d.colon = COLON
    /\ d.type \in TypeEnum
    /\ d.extra = E

HasNoSpaces(d) == d.pre = E /\ d.gap1 = E /\ d.gap2 = E /\ d.post = E

\* a segment with no ':', an empty side, or a type token outside the enum
IsBadSegment(d) ==
    /\ ~IsBlankSegment(d)
    /\ d.extra = E
    /\ \/ d.colon = E
       \/ d.name = E
       \/ d.type \o d.opt = E
       \/ d.type \notin TypeEnum

fieldOf(d) == [name |-> d.name, type |-> d.type, optional |-> (d.opt = QM)]

fieldListOf(ds) == [i \in 1..Len(ds) |-> fieldOf(ds[i])]

withoutSpaces(d) == [d EXCEPT !.pre = E, !.gap1 = E, !.gap2 = E, !.post = E]

serializeField(f) == f.name \o COLON \o f.type \o (IF f.optional THEN QM ELSE E)

RECURSIVE serializeFields(_)
serializeFields(fs) ==
    IF fs = <<>> THEN <<>>
    ELSE IF Len(fs) = 1 THEN serializeField(fs[1])
    ELSE serializeField(fs[1]) \o <<",">> \o serializeFields(Tail(fs))

ParsedFields == pc = "done" /\ fn = "parseFields"

\* C1: parseFields is all-or-nothing: when at least one segment of the input
\* lacks a name or a type or carries a type token outside the enum, the call
\* throws and returns no field list, whatever well-formed segments surround it.
C1_AllOrNothing ==
    (ParsedFields /\ \E i \in 1..Len(segs) : IsBadSegment(segs[i]))
        => (out.threw /\ out.value = Undefined)

C1_Witness ==
    /\ ParsedFields
    /\ Len(segs) = 3
    /\ IsWellFormedSegment(segs[1]) /\ HasNoSpaces(segs[1])
    /\ IsBadSegment(segs[2])
    /\ IsWellFormedSegment(segs[3]) /\ HasNoSpaces(segs[3])
    /\ out.threw

\* C2: for a well-formed input of n segments name:type or name:type? the call
\* returns n records in segment order; record i carries the name and the type
\* of segment i without the '?', and optional is true exactly when the type
\* token of segment i ends with '?'.
C2_RecordsInOrder ==
    (/\ ParsedFields
     /\ Len(segs) >= 1
     /\ \A i \in 1..Len(segs) : IsWellFormedSegment(segs[i]) /\ HasNoSpaces(segs[i]))
        => /\ ~out.threw
           /\ Len(out.value) = Len(segs)
           /\ \A i \in 1..Len(segs) :
                 /\ out.value[i].name = segs[i].name
                 /\ out.value[i].type = segs[i].type
                 /\ out.value[i].optional = (segs[i].opt = QM)

C2_Witness ==
    /\ ParsedFields
    /\ Len(segs) = 3
    /\ \A i \in 1..3 : IsWellFormedSegment(segs[i]) /\ HasNoSpaces(segs[i])
    /\ segs[1].opt = E /\ segs[2].opt = QM /\ segs[1].name # segs[3].name
    /\ ~out.threw /\ Len(out.value) = 3

\* C3: every record parseFields returns has a name matching
\* [A-Za-z][A-Za-z0-9]* and a type of the closed enum.
C3_RecordsMatchGrammar ==
    (ParsedFields /\ ~out.threw)
        => \A i \in 1..Len(out.value) :
              IsIdentifier(out.value[i].name) /\ out.value[i].type \in TypeEnum

\* C4: spaces before or after any ',' or ':' of a well-formed input do not
\* change the result: it is the field list of the input without the spaces.
C4_WhitespaceIgnored ==
    (ParsedFields /\ \A i \in 1..Len(segs) : IsWellFormedSegment(segs[i]))
        => out = parseFields(joinSegments([i \in 1..Len(segs) |-> withoutSpaces(segs[i])]))

\* C5: segments that are empty after trimming contribute no field and no
\* error: the result is that of the input with the empty segments removed.
C5_EmptySegmentsSkipped ==
    ParsedFields
        => out = parseFields(joinSegments(SelectSeq(segs, LAMBDA d : ~IsBlankSegment(d))))

\* C6: parseFields round-trips: a field list with grammar names and enum
\* types, serialised as comma-joined name:type / name:type? segments, parses
\* back to the same list; the list of an accepted input survives serialising
\* and parsing again.
C6_RoundTrip ==
    (/\ ParsedFields
     /\ \A i \in 1..Len(segs) : IsWellFormedSegment(segs[i]) /\ HasNoSpaces(segs[i]))
        => /\ input = serializeFields(fieldListOf(segs))
           /\ out = Returned(fieldListOf(segs))
           /\ parseFields(serializeFields(out.value)) = out

C6_Witness ==
    /\ ParsedFields
    /\ Len(segs) = 2
    /\ \A i \in 1..2 : IsWellFormedSegment(segs[i]) /\ HasNoSpaces(segs[i])
    /\ segs[1].opt = QM /\ segs[2].opt = E
    /\ input = serializeFields(fieldListOf(segs))
    /\ out = Returned(fieldListOf(segs))
----------------------------------------------------------------------------
(* Name validation: src/utils/fieldParser.ts *)

RECURSIVE allIn(_, _)
allIn(s, class) ==
    IF s = <<>> THEN TRUE
    ELSE Head(s) \in class /\ allIn(Tail(s), class)

\* /^[A-Za-z][A-Za-z0-9]*$/.test(name)
matchesEntityPattern(name) ==
    name # <<>> /\ Head(name) \in Letter /\ allIn(Tail(name), Letter \cup Digit)

\* /^[A-Za-z][A-Za-z0-9_-]*$/.test(name)
matchesServicePattern(name) ==
    name # <<>> /\ Head(name) \in Letter /\ allIn(Tail(name), Letter \cup Digit \cup {"_", "-"})

validateEntityNameLenient(name) ==
    IF name = <<>> THEN Threw("Entity name is required", name)
    ELSE IF ~matchesServicePattern(name)
    THEN Threw("Entity name must start with a letter and contain only alphanumeric characters", name)
    ELSE Returned(Undefined)

validateEntityName(name) ==
    IF name = <<>> THEN Threw("Entity name is required", name)
    ELSE IF ~matchesEntityPattern(name)
    THEN Threw("Entity name must start with a letter and contain only alphanumeric characters", name)
    ELSE Returned(Undefined)

validateServiceName(name) ==
    IF name = <<>> THEN Threw("Service name is required", name)
    ELSE IF ~matchesServicePattern(name)
    THEN Threw("Service name must start with a letter and contain only alphanumeric characters, hyphens, or underscores", name)
    ELSE Returned(Undefined)

----------------------------------------------------------------------------
(* Naming transforms: src/utils/fieldParser.ts *)

LowerSeq == <<"a","b","c","d","e","f","g","h","i","j","k","l","m",
              "n","o","p","q","r","s","t","u","v","w","x","y","z">>
UpperSeq == <<"A","B","C","D","E","F","G","H","I","J","K","L","M",
              "N","O","P","Q","R","S","T","U","V","W","X","Y","Z">>

\* c.toUpperCase() and c.toLowerCase() for one character
upperChar(c) ==
    IF c \in Lower THEN UpperSeq[CHOOSE i \in 1..26 : LowerSeq[i] = c] ELSE c

lowerChar(c) ==
    IF c \in Upper THEN LowerSeq[CHOOSE i \in 1..26 : UpperSeq[i] = c] ELSE c

toLowerCase(s) == [i \in 1..Len(s) |-> lowerChar(s[i])]

\* str.replace(/[-_](\w)/g, (_, c) => c.toUpperCase())
RECURSIVE replaceSeparators(_)
replaceSeparators(s) ==
    IF s = <<>> THEN <<>>
    ELSE IF Len(s) >= 2 /\ s[1] \in {"-", "_"} /\ s[2] \in WordChar
    THEN <<upperChar(s[2])>> \o replaceSeparators(SubSeq(s, 3, Len(s)))
    ELSE <<s[1]>> \o replaceSeparators(Tail(s))

upperFirstLowerRest(s) ==
    IF s # <<>> /\ s[1] \in WordChar THEN <<upperChar(s[1])>> \o toLowerCase(Tail(s)) ELSE s

\* str.replace(/^\w/, (c) => c.toUpperCase())
upperFirstWordChar(s) ==
    IF s # <<>> /\ s[1] \in WordChar THEN <<upperChar(s[1])>> \o Tail(s) ELSE s

toPascalCase(str) == upperFirstWordChar(replaceSeparators(str))

\* pascal.charAt(0).toLowerCase() + pascal.slice(1)
toCamelCase(str) ==
    LET pascal == toPascalCase(str)
    IN  IF pascal = <<>> THEN <<>> ELSE <<lowerChar(pascal[1])>> \o Tail(pascal)

\* str.replace(/([a-z])([A-Z])/g, '$1' + sep + '$2')
RECURSIVE splitCamel(_, _)
splitCamel(s, sep) ==
    IF s = <<>> THEN <<>>
    ELSE IF Len(s) >= 2 /\ s[1] \in Lower /\ s[2] \in Upper
    THEN <<s[1], sep, s[2]>> \o splitCamel(SubSeq(s, 3, Len(s)), sep)
    ELSE <<s[1]>> \o splitCamel(Tail(s), sep)

\* str.replace(/[class]+/g, sep): every maximal run becomes one separator
RECURSIVE replaceRuns(_, _, _)
replaceRuns(s, class, sep) ==
    IF s = <<>> THEN <<>>
    ELSE IF s[1] \in class
    THEN IF Len(s) >= 2 /\ s[2] \in class
         THEN replaceRuns(Tail(s), class, sep)
         ELSE <<sep>> \o replaceRuns(Tail(s), class, sep)
    ELSE <<s[1]>> \o replaceRuns(Tail(s), class, sep)

toKebabCase(str) ==
    toLowerCase(replaceRuns(splitCamel(str, "-"), WhiteSpace \cup {"_"}, "-"))

toSnakeCaseKeepsHyphens(str) ==
    toLowerCase(replaceRuns(splitCamel(str, "_"), WhiteSpace \cup {"_"}, "_"))

toSnakeCase(str) ==
    toLowerCase(replaceRuns(splitCamel(str, "_"), WhiteSpace \cup {"-"}, "_"))

pluralize(word) ==
    IF endsWith(word, <<"y">>) THEN dropLast(word) \o <<"i", "e", "s">>
    ELSE IF \/ endsWith(word, <<"s">>) \/ endsWith(word, <<"x">>)
            \/ endsWith(word, <<"c", "h">>) \/ endsWith(word, <<"s", "h">>)
    THEN word \o <<"e", "s">>
    ELSE word \o <<"s">>

----------------------------------------------------------------------------
(* Specification of the validators and naming transforms: one call on one  *)
(* input string                                                            *)

NameChars == {"a", "b", "y", "s", "x", "c", "h", "U", "1", "-", "_", ".", " "}

NameInputs == UNION { [1..n -> NameChars] : n \in 0..MaxNameLen }

InitNames ==
    /\ pc = "start"
    /\ fn = "none"
    /\ segs = <<>>
    /\ input \in NameInputs
    /\ env = NoEnv
    /\ out = NotCalled
    /\ files = NoFiles
    /\ console = <<>>
    /\ templateCache = EmptyCache
    /\ renderers = <<>>
    /\ history = <<>>

ValidateEntityName ==
    /\ pc = "start"
    /\ pc' = "done"
    /\ fn' = "validateEntityName"
    /\ out' = validateEntityName(input)
    /\ UNCHANGED <<segs, input, env, files, console, engine>>

ValidateServiceName ==
    /\ pc = "start"
    /\ pc' = "done"
    /\ fn' = "validateServiceName"
    /\ out' = validateServiceName(input)
    /\ UNCHANGED <<segs, input, env, files, console, engine>>

ToPascalCase ==
    /\ pc = "start"
    /\ pc' = "done"
    /\ fn' = "toPascalCase"
    /\ out' = Returned(toPascalCase(input))
    /\ UNCHANGED <<segs, input, env, files, console, engine>>

ToCamelCase ==
    /\ pc = "start"
    /\ pc' = "done"
    /\ fn' = "toCamelCase"
    /\ out' = Returned(toCamelCase(input))
    /\ UNCHANGED <<segs, input, env, files, console, engine>>

ToKebabCase ==
    /\ pc = "start"
    /\ pc' = "done"
    /\ fn' = "toKebabCase"
    /\ out' = Returned(toKebabCase(input))
    /\ UNCHANGED <<segs, input, env, files, console, engine>>

ToSnakeCase ==
    /\ pc = "start"
    /\ pc' = "done"
    /\ fn' = "toSnakeCase"
    /\ out' = Returned(toSnakeCase(input))
    /\ UNCHANGED <<segs, input, env, files, console, engine>>

Pluralize ==
    /\ pc = "start"
    /\ pc' = "done"
    /\ fn' = "pluralize"
    /\ out' = Returned(pluralize(input))
    /\ UNCHANGED <<segs, input, env, files, console, engine>>

NextNames ==
    \/ ValidateEntityName
    \/ ValidateServiceName
    \/ ToPascalCase
    \/ ToCamelCase
    \/ ToKebabCase
    \/ ToSnakeCase
    \/ Pluralize

SpecNames == InitNames /\ [][NextNames]_vars
----------------------------------------------------------------------------
(* The generate client command: the client subcommand of                   *)
(* createGenerateCommand, generateClientFile and the client generators     *)

\* DEFAULT_METADATA.paths, the roles the client generators read
DefaultGrpcAdaptersDir == <<"s", "r", "c", "/", "i", "n", "f", "r", "a", "s", "t", "r", "u", "c", "t", "u", "r", "e", "/", "a", "d", "a", "p", "t", "e", "r", "s", "/", "g", "r", "p", "c">>
DefaultGrpcPortsDir == <<"s", "r", "c", "/", "a", "p", "p", "l", "i", "c", "a", "t", "i", "o", "n", "/", "p", "o", "r", "t", "s", "/", "g", "r", "p", "c">>

\* path.join(dir, file) for a file name without separators or dot segments
pathJoin(dir, file) == dir \o <<"/">> \o file

\* TemplateRenderer.render: the template named must exist under the
\* template root; the text is determined by the template and its data
render(templateName, data, templates) ==
    IF templateName \notin templates
    THEN Threw("Template not found", <<templateName>>)
    ELSE Returned([template |-> templateName, data |-> data])

generateGrpcClientAdapter(serviceName, templates) ==
    LET serviceKebab == toKebabCase(serviceName)
    IN  render("client/adapter",
               [service |-> toPascalCase(serviceName),
                serviceLower |-> toCamelCase(serviceName),
                serviceKebab |-> serviceKebab,
                serviceSnake |-> toSnakeCase(serviceName),
                currentFilePath |->
                    pathJoin(DefaultGrpcAdaptersDir, serviceKebab \o <<".", "c", "l", "i", "e", "n", "t", ".", "a", "d", "a", "p", "t", "e", "r", ".", "t", "s">>)],
               templates)

generateClientPortInterface(serviceName, templates) ==
    LET serviceKebab == toKebabCase(serviceName)
    IN  render("client/port",
               [service |-> toPascalCase(serviceName),
                serviceLower |-> toCamelCase(serviceName),
                serviceKebab |-> serviceKebab,
                serviceSnake |-> <<>>,
                currentFilePath |->
                    pathJoin(DefaultGrpcPortsDir, serviceKebab \o <<".", "c", "l", "i", "e", "n", "t", ".", "p", "o", "r", "t", ".", "t", "s">>)],
               templates)

\* outcome of a subcommand: what was thrown, if anything, and the exit code
CommandResult(threw, code, msg, token) ==
    [threw |-> threw, value |-> code, error |-> [msg |-> msg, token |-> token]]

Exit0 == <<"0">>
Exit1 == <<"1">>

\* generateClientFile(serviceName, withPort) run under the try/catch of the
\* subcommand: the files it writes and the outcome of the command
generateClientFile(serviceName, withPort, isProject, templates) ==
    LET check == validateEntityName(serviceName)
        kebabName == toKebabCase(serviceName)
        adapter == generateGrpcClientAdapter(serviceName, templates)
        adapterFile == [path |-> pathJoin(<<"s", "r", "c", "/", "i", "n", "f", "r", "a", "s", "t", "r", "u", "c", "t", "u", "r", "e", "/", "a", "d", "a", "p", "t", "e", "r", "s", "/", "g", "r", "p", "c">>,
                                          kebabName \o <<".", "c", "l", "i", "e", "n", "t", ".", "a", "d", "a", "p", "t", "e", "r", ".", "t", "s">>),
                        content |-> adapter.value]
        port == generateClientPortInterface(serviceName, templates)
        portFile == [path |-> pathJoin(<<"s", "r", "c", "/", "a", "p", "p", "l", "i", "c", "a", "t", "i", "o", "n", "/", "p", "o", "r", "t", "s", "/", "g", "r", "p", "c">>,
                                       kebabName \o <<".", "c", "l", "i", "e", "n", "t", ".", "p", "o", "r", "t", ".", "t", "s">>),
                     content |-> port.value]
    IN  IF check.threw
        THEN [written |-> {}, result |-> CommandResult(TRUE, Exit1, check.error.msg, serviceName)]
        ELSE IF ~isProject
        THEN [written |-> {}, result |-> CommandResult(FALSE, Exit1, "Not a Struktos project!", <<>>)]
        ELSE IF adapter.threw
        THEN [written |-> {}, result |-> CommandResult(TRUE, Exit1, adapter.error.msg, adapter.error.token)]
        ELSE IF ~withPort
        THEN [written |-> {adapterFile}, result |-> CommandResult(FALSE, Exit0, "none", <<>>)]
        ELSE IF port.threw
        THEN [written |-> {adapterFile}, result |-> CommandResult(TRUE, Exit1, port.error.msg, port.error.token)]
        ELSE [written |-> {adapterFile, portFile}, result |-> CommandResult(FALSE, Exit0, "none", <<>>)]

ServiceChars == {"a", "B", "1", "-", "_", "."}

ServiceInputs == UNION { [1..n -> ServiceChars] : n \in 0..MaxNameLen }

ClientTemplates == {"client/adapter", "client/port"}

InitCommands ==
    /\ pc = "start"
    /\ fn = "none"
    /\ segs = <<>>
    /\ input \in ServiceInputs
    /\ env \in [withPort : BOOLEAN, isProject : BOOLEAN, templates : SUBSET ClientTemplates]
    /\ out = NotCalled
    /\ files = NoFiles
    /\ console = <<>>
    /\ templateCache = EmptyCache
    /\ renderers = <<>>
    /\ history = <<>>

GenerateClient ==
    /\ pc = "start"
    /\ pc' = "done"
    /\ fn' = "generate client"
    /\ LET run == generateClientFile(input, env.withPort, env.isProject, env.templates)
       IN  /\ files' = files \cup run.written
           /\ out' = run.result
    /\ UNCHANGED <<segs, input, env, console, engine>>

NextCommands == GenerateClient

SpecCommands == InitCommands /\ [][NextCommands]_vars
----------------------------------------------------------------------------
(* Properties of the validators, the naming transforms and generate client *)

\* the lenient grammar: a letter, then letters, digits, '-' or '_'
IsServiceName(s) ==
    /\ s # <<>>
    /\ s[1] \in Letter
    /\ \A i \in 2..Len(s) : s[i] \in Letter \cup Digit \cup {"-", "_"}

\* C7: validateEntityName accepts exactly the non-empty strings matching
\* ^[A-Za-z][A-Za-z0-9]*$ and throws on every other string;
\* validateServiceName accepts exactly a letter followed by letters, digits,
\* '-' or '_'; every name the strict validator accepts the lenient one
\* accepts too.
C7_NameValidators ==
    /\ (pc = "done" /\ fn = "validateEntityName")
          => /\ ~out.threw <=> IsIdentifier(input)
             /\ ~out.threw => ~validateServiceName(input).threw
    /\ (pc = "done" /\ fn = "validateServiceName")
          => (~out.threw <=> IsServiceName(input))

C7_Witness ==
    /\ pc = "done" /\ fn = "validateEntityName"
    /\ Len(input) = 3 /\ input[2] = "-"
    /\ out.threw
    /\ ~validateServiceName(input).threw

NameErrors == { "Entity name is required",
                "Entity name must start with a letter and contain only alphanumeric characters",
                "Service name is required",
                "Service name must start with a letter and contain only alphanumeric characters, hyphens, or underscores" }

\* C8: generate client accepts every name of the lenient service-name
\* grammar (kebab-case, snake_case, PascalCase): the command does not fail
\* with an invalid-name error and, in a project with the adapter template,
\* writes the client adapter.
C8_ClientAcceptsServiceNames ==
    (pc = "done" /\ fn = "generate client" /\ IsServiceName(input))
        => /\ out.error.msg \notin NameErrors
           /\ (env.isProject /\ "client/adapter" \in env.templates)
                 => \E f \in files : f.content.template = "client/adapter"

Vowels == {"a", "e", "i", "o", "u", "A", "E", "I", "O", "U"}

\* the three-rule heuristic
pluralByRule(word) ==
    IF /\ Len(word) >= 2 /\ word[Len(word)] = "y"
       /\ word[Len(word) - 1] \in Letter \ Vowels
    THEN SubSeq(word, 1, Len(word) - 1) \o <<"i", "e", "s">>
    ELSE IF \/ (Len(word) >= 1 /\ word[Len(word)] \in {"s", "x"})
            \/ (Len(word) >= 2 /\ SubSeq(word, Len(word) - 1, Len(word)) \in {<<"c", "h">>, <<"s", "h">>})
    THEN word \o <<"e", "s">>
    ELSE word \o <<"s">>

\* C9: pluralize follows the three-rule heuristic: consonant + 'y' becomes
\* 'ies'; otherwise a final 's', 'x', 'ch' or 'sh' gets 'es'; otherwise 's'
\* is appended, so a word ending in vowel + 'y' gets 's'.
C9_PluralizeRules ==
    (pc = "done" /\ fn = "pluralize" /\ Len(input) >= 2 /\ \A i \in 1..Len(input) : input[i] \in Letter)
        => out.value = pluralByRule(input)

NamingFunctions == {"toPascalCase", "toCamelCase", "toKebabCase", "toSnakeCase", "pluralize"}

\* C10: every function of the naming library returns without an error on
\* every input and returns the empty string for the empty string.
C10_NamingTotalEmptyToEmpty ==
    (pc = "done" /\ fn \in NamingFunctions)
        => /\ ~out.threw
           /\ input = <<>> => out.value = <<>>
----------------------------------------------------------------------------
(* Properties of the case converters *)

Separators == {"-", "_", " "}

\* words of letters and digits, a single separator between two words
IsSeparatedName(s, seps) ==
    /\ s # <<>>
    /\ \A i \in 1..Len(s) : s[i] \in Letter \cup Digit \cup seps
    /\ s[1] \in Letter
    /\ s[Len(s)] \notin seps
    /\ \A i \in 1..(Len(s) - 1) : ~(s[i] \in seps /\ s[i + 1] \in seps)

\* position i starts a word: after a separator or at a lower-to-upper boundary
StartsWord(s, i, seps) ==
    i > 1 /\ (s[i - 1] \in seps \/ (s[i - 1] \in Lower /\ s[i] \in Upper))

\* the lower-cased words of s joined by the separator sep
RECURSIVE joinedWordsFrom(_, _, _, _)
joinedWordsFrom(s, i, seps, sep) ==
    IF i > Len(s) THEN <<>>
    ELSE IF s[i] \in seps THEN joinedWordsFrom(s, i + 1, seps, sep)
    ELSE (IF StartsWord(s, i, seps) THEN <<sep>> ELSE <<>>)
            \o <<lowerChar(s[i])>> \o joinedWordsFrom(s, i + 1, seps, sep)

\* C11: toKebabCase and toSnakeCase split a name at every lower-to-upper
\* boundary and at every hyphen, underscore or space and join the lower-cased
\* words by '-' (kebab) or '_' (snake); the result has no upper-case letter
\* and no separator other than the target one.
C11_KebabSnakeWords ==
    /\ (pc = "done" /\ fn = "toKebabCase")
          => /\ \A i \in 1..Len(out.value) : out.value[i] \notin Upper \cup {"_", " "}
             /\ IsSeparatedName(input, Separators)
                   => out.value = joinedWordsFrom(input, 1, Separators, "-")
    /\ (pc = "done" /\ fn = "toSnakeCase")
          => /\ \A i \in 1..Len(out.value) : out.value[i] \notin Upper \cup {"-", " "}
             /\ IsSeparatedName(input, Separators)
                   => out.value = joinedWordsFrom(input, 1, Separators, "_")

C11_Witness ==
    /\ pc = "done" /\ fn = "toSnakeCase"
    /\ Len(input) = 3 /\ input[1] \in Lower /\ input[2] = "-" /\ input[3] \in Lower
    /\ out.value = <<input[1], "_", input[3]>>

\* the words of s with their first letter upper-cased and the separators removed
RECURSIVE capitalizedWordsFrom(_, _, _)
capitalizedWordsFrom(s, i, seps) ==
    IF i > Len(s) THEN <<>>
    ELSE IF s[i] \in seps THEN capitalizedWordsFrom(s, i + 1, seps)
    ELSE <<IF i = 1 \/ s[i - 1] \in seps THEN upperChar(s[i]) ELSE s[i]>>
            \o capitalizedWordsFrom(s, i + 1, seps)

IsPascalName(s) ==
    s # <<>> /\ s[1] \in Upper /\ \A i \in 1..Len(s) : s[i] \in Letter \cup Digit

\* C12: toPascalCase removes the hyphen and underscore separators of a name,
\* upper-cases the first letter of each word and keeps the camel boundaries;
\* a PascalCase input is returned unchanged and converting the result again
\* changes nothing; toCamelCase(x) is toPascalCase(x) with its first
\* character lower-cased.
C12_PascalCamel ==
    /\ (pc = "done" /\ fn = "toPascalCase")
          => /\ IsSeparatedName(input, {"-", "_"})
                   => /\ out.value = capitalizedWordsFrom(input, 1, {"-", "_"})
                      /\ toPascalCase(out.value) = out.value
             /\ IsPascalName(input) => out.value = input
    /\ (pc = "done" /\ fn = "toCamelCase")
          => /\ Len(out.value) = Len(toPascalCase(input))
             /\ \A i \in 1..Len(out.value) :
                   out.value[i] = IF i = 1 THEN lowerChar(toPascalCase(input)[1])
                                  ELSE toPascalCase(input)[i]

C12_Witness ==
    /\ pc = "done" /\ fn = "toPascalCase"
    /\ Len(input) = 3 /\ input[1] \in Lower /\ input[2] = "_" /\ input[3] \in Lower
    /\ out.value = <<upperChar(input[1]), upperChar(input[3])>>
----------------------------------------------------------------------------
(* Import Path Resolver: resolveImportPath, isPackageImport, normalizePath *)

startsWith(s, prefix) ==
    Len(s) >= Len(prefix) /\ SubSeq(s, 1, Len(prefix)) = prefix

\* s.includes(sub)
includes(s, sub) ==
    \E i \in 1..(Len(s) - Len(sub) + 1) : SubSeq(s, i, i + Len(sub) - 1) = sub

\* s.replace(/\\/g, '/')
slashes(s) == [i \in 1..Len(s) |-> IF s[i] = "\\" THEN "/" ELSE s[i]]

RECURSIVE joinWith(_, _)
joinWith(parts, sep) ==
    IF parts = <<>> THEN <<>>
    ELSE IF Len(parts) = 1 THEN parts[1]
    ELSE parts[1] \o sep \o joinWith(Tail(parts), sep)

isPackageImportNoScope(importPath) ==
    IF startsWith(importPath, <<".">>) \/ startsWith(importPath, <<"/">>) THEN FALSE
    ELSE IF includes(importPath, <<"/", "s", "r", "c", "/">>) \/ startsWith(importPath, <<"s", "r", "c", "/">>) THEN FALSE
    ELSE TRUE

isPackageImport(importPath) ==
    IF startsWith(importPath, <<"@">>) THEN TRUE
    ELSE IF startsWith(importPath, <<".">>) \/ startsWith(importPath, <<"/">>) THEN FALSE
    ELSE IF includes(importPath, <<"/", "s", "r", "c", "/">>) \/ startsWith(importPath, <<"s", "r", "c", "/">>) THEN FALSE
    ELSE TRUE

normalizePath(filePath) ==
    LET noExt == IF endsWith(filePath, <<".", "t", "s">>)
                 THEN SubSeq(filePath, 1, Len(filePath) - 3) ELSE filePath
        normalized == slashes(noExt)
    IN  IF startsWith(normalized, <<".", "/">>) THEN SubSeq(normalized, 3, Len(normalized))
        ELSE normalized

\* path.resolve on POSIX: the segments of the absolute, normalised path
RECURSIVE resolveOnto(_, _)
resolveOnto(base, parts) ==
    IF parts = <<>> THEN base
    ELSE IF Head(parts) = <<>> \/ Head(parts) = <<".">> THEN resolveOnto(base, Tail(parts))
    ELSE IF Head(parts) = <<".", ".">>
    THEN resolveOnto(IF base = <<>> THEN base ELSE SubSeq(base, 1, Len(base) - 1), Tail(parts))
    ELSE resolveOnto(Append(base, Head(parts)), Tail(parts))

pathResolve(cwd, p) ==
    IF startsWith(p, <<"/">>) THEN resolveOnto(<<>>, split(p, "/"))
    ELSE resolveOnto(cwd, split(p, "/"))

\* path.dirname on POSIX for a relative path
RECURSIVE dropTrailingSlashes(_)
dropTrailingSlashes(p) ==
    IF Len(p) > 1 /\ p[Len(p)] = "/" THEN dropTrailingSlashes(SubSeq(p, 1, Len(p) - 1)) ELSE p

RECURSIVE lastSlash(_, _)
lastSlash(p, i) == IF i < 1 THEN 0 ELSE IF p[i] = "/" THEN i ELSE lastSlash(p, i - 1)

pathDirname(path) ==
    LET p == dropTrailingSlashes(path)
        end == lastSlash(p, Len(p))
    IN  IF end = 0 THEN <<".">>
        ELSE IF end = 1 THEN <<"/">>
        ELSE SubSeq(p, 1, end - 1)

RECURSIVE commonLength(_, _)
commonLength(a, b) ==
    IF a = <<>> \/ b = <<>> \/ Head(a) # Head(b) THEN 0
    ELSE 1 + commonLength(Tail(a), Tail(b))

\* path.relative(from, to) on POSIX
pathRelative(cwd, from, to) ==
    LET fromParts == pathResolve(cwd, from)
        toParts == pathResolve(cwd, to)
        common == commonLength(fromParts, toParts)
        ups == [i \in 1..(Len(fromParts) - common) |-> <<".", ".">>]
    IN  joinWith(ups \o SubSeq(toParts, common + 1, Len(toParts)), <<"/">>)

resolveImportPath(targetModulePath, currentFilePath, cwd) ==
    IF isPackageImport(targetModulePath) THEN targetModulePath
    ELSE LET normalizedTarget == normalizePath(targetModulePath)
             normalizedCurrent == normalizePath(currentFilePath)
             currentDir == pathDirname(normalizedCurrent)
             relativePath == pathRelative(cwd, currentDir, normalizedTarget)
             prefixed == IF ~startsWith(relativePath, <<".">>) /\ ~startsWith(relativePath, <<".", ".">>)
                         THEN <<".", "/">> \o relativePath ELSE relativePath
         IN  slashes(prefixed)

\* the importPath template helper
importPathHelper(target, current, cwd) ==
    IF isPackageImport(target) THEN target
    ELSE resolveImportPath(target, current, cwd)

----------------------------------------------------------------------------
(* Specification of the path resolver: one call on a target and a current  *)
(* file path assembled from path segments                                  *)

TargetNames == { <<"s", "r", "c">>, <<"a">>, <<".", "b">>, <<"X", ".", "t", "s">>, <<".", ".">>, <<".">>, <<"@", "s">>, <<"a", "\\", "b">> }
CurrentNames == { <<"s", "r", "c">>, <<"a">>, <<"f", ".", "t", "s">> }

SegmentPaths(names) == UNION { [1..n -> names] : n \in 1..MaxPathSegs }

\* process.cwd()
ProjectCwd == << <<"h", "o", "m", "e">>, <<"d", "e", "v">>, <<"a", "p", "p">> >>

InitPaths ==
    /\ pc = "start"
    /\ fn = "none"
    /\ segs \in [target : SegmentPaths(TargetNames), current : SegmentPaths(CurrentNames)]
    /\ input = [target |-> joinWith(segs.target, <<"/">>), current |-> joinWith(segs.current, <<"/">>)]
    /\ env = [cwd |-> ProjectCwd]
    /\ out = NotCalled
    /\ files = NoFiles
    /\ console = <<>>
    /\ templateCache = EmptyCache
    /\ renderers = <<>>
    /\ history = <<>>

ResolveImportPath ==
    /\ pc = "start"
    /\ pc' = "done"
    /\ fn' = "resolveImportPath"
    /\ out' = Returned(resolveImportPath(input.target, input.current, env.cwd))
    /\ UNCHANGED <<segs, input, env, files, console, engine>>

ImportPathHelper ==
    /\ pc = "start"
    /\ pc' = "done"
    /\ fn' = "importPath"
    /\ out' = Returned(importPathHelper(input.target, input.current, env.cwd))
    /\ UNCHANGED <<segs, input, env, files, console, engine>>

NextPaths == ResolveImportPath \/ ImportPathHelper

SpecPaths == InitPaths /\ [][NextPaths]_vars
----------------------------------------------------------------------------
(* Properties of the path resolver *)

ResolvedPath == pc = "done" /\ fn = "resolveImportPath"

HasSourceRootMarker(p) ==
    \/ (Len(p) >= 4 /\ SubSeq(p, 1, 4) = <<"s", "r", "c", "/">>)
    \/ \E i \in 1..Len(p) : i + 4 <= Len(p) /\ SubSeq(p, i, i + 4) = <<"/", "s", "r", "c", "/">>

\* the classification of a target as an external package specifier
IsExternalTarget(p) ==
    \/ (p # <<>> /\ p[1] = "@")
    \/ (p # <<>> /\ p[1] \notin {".", "/"} /\ ~HasSourceRootMarker(p))

\* C13: for a project-local target the resolved specifier starts with './'
\* or '../' (a bare '..' counts as a parent reference) and has no backslash.
C13_RelativeSpecifier ==
    (ResolvedPath /\ ~IsExternalTarget(input.target))
        => /\ \/ (Len(out.value) >= 2 /\ SubSeq(out.value, 1, 2) = <<".", "/">>)
              \/ (Len(out.value) >= 3 /\ SubSeq(out.value, 1, 3) = <<".", ".", "/">>)
              \/ out.value = <<".", ".">>
           /\ \A i \in 1..Len(out.value) : out.value[i] # "\\"

\* C14: an external-package target (it starts with '@', or it starts with
\* neither '.' nor '/' and has no source-root marker) is returned unchanged
\* by resolveImportPath and by the importPath helper, whatever the current path.
C14_ExternalPassThrough ==
    (pc = "done" /\ fn \in {"resolveImportPath", "importPath"} /\ IsExternalTarget(input.target))
        => out.value = input.target

C14_Witness ==
    /\ pc = "done" /\ fn = "importPath"
    /\ input.target = <<"@", "s", "/", "s", "r", "c", "/", "a">>
    /\ Len(segs.current) = 3
    /\ out.value = input.target

\* the normalised form the claim speaks of: no trailing '.ts', no leading './'
plainSegments(names) ==
    LET last == names[Len(names)]
        stripped == [names EXCEPT ![Len(names)] =
                        IF Len(last) >= 3 /\ SubSeq(last, Len(last) - 2, Len(last)) = <<".", "t", "s">>
                        THEN SubSeq(last, 1, Len(last) - 3) ELSE last]
    IN  IF Len(stripped) >= 2 /\ stripped[1] = <<".">> THEN Tail(stripped) ELSE stripped

IsPlain(names) ==
    \A i \in 1..Len(names) : names[i] \notin {<<>>, <<".">>, <<".", ".">>} /\ "\\" \notin {names[i][j] : j \in 1..Len(names[i])}

sharedPrefix(a, b) ==
    CHOOSE k \in 0..Len(a) :
        /\ k <= Len(b)
        /\ \A i \in 1..k : a[i] = b[i]
        /\ (k < Len(a) /\ k < Len(b)) => a[k + 1] # b[k + 1]

\* one '..' per remaining segment of the current directory, then the
\* remaining segments of the target; './' in front when there is no '..'
lexicalDifference(targetNames, currentNames) ==
    LET target == plainSegments(targetNames)
        current == plainSegments(currentNames)
        dir == SubSeq(current, 1, Len(current) - 1)
        k == sharedPrefix(dir, target)
        ups == [i \in 1..(Len(dir) - k) |-> <<".", ".">>]
        body == joinWith(ups \o SubSeq(target, k + 1, Len(target)), <<"/">>)
    IN  IF Len(dir) = k THEN <<".", "/">> \o body ELSE body

\* C15: for project-local paths resolveImportPath is the lexical path
\* difference of the normalised paths.
C15_LexicalDifference ==
    (/\ ResolvedPath
     /\ ~IsExternalTarget(input.target)
     /\ IsPlain(plainSegments(segs.target))
     /\ IsPlain(plainSegments(segs.current)))
        => out.value = lexicalDifference(segs.target, segs.current)
----------------------------------------------------------------------------
(* Metadata reader (metadata-reader.ts) *)

\* {}: an object without keys
EmptyObject == [k \in {} |-> <<>>]

DEFAULT_METADATA ==
    [ version |-> <<"1", ".", "0", ".", "0">>,
      framework |-> <<"e", "x", "p", "r", "e", "s", "s">>,
      coreImports |->
        [ RequestContext |-> <<"@", "s", "t", "r", "u", "k", "t", "o", "s", "/", "c", "o", "r", "e">>,
          IInterceptor |-> <<"@", "s", "t", "r", "u", "k", "t", "o", "s", "/", "c", "o", "r", "e">>,
          ILogger |-> <<"@", "s", "t", "r", "u", "k", "t", "o", "s", "/", "c", "o", "r", "e">>,
          NextFn |-> <<"@", "s", "t", "r", "u", "k", "t", "o", "s", "/", "c", "o", "r", "e">>,
          IGrpcClientFactory |-> <<"@", "s", "t", "r", "u", "k", "t", "o", "s", "/", "c", "o", "r", "e">>,
          GrpcContextData |-> <<"@", "s", "t", "r", "u", "k", "t", "o", "s", "/", "a", "d", "a", "p", "t", "e", "r", "-", "g", "r", "p", "c">> ],
      paths |->
        [ domain |->
            [ entities |-> <<"s", "r", "c", "/", "d", "o", "m", "a", "i", "n", "/", "e", "n", "t", "i", "t", "i", "e", "s">>,
              repositories |-> <<"s", "r", "c", "/", "d", "o", "m", "a", "i", "n", "/", "r", "e", "p", "o", "s", "i", "t", "o", "r", "i", "e", "s">>,
              services |-> <<"s", "r", "c", "/", "d", "o", "m", "a", "i", "n", "/", "s", "e", "r", "v", "i", "c", "e", "s">> ],
          application |->
            [ useCases |-> <<"s", "r", "c", "/", "a", "p", "p", "l", "i", "c", "a", "t", "i", "o", "n", "/", "u", "s", "e", "-", "c", "a", "s", "e", "s">>,
              ports |->
                [ grpc |-> <<"s", "r", "c", "/", "a", "p", "p", "l", "i", "c", "a", "t", "i", "o", "n", "/", "p", "o", "r", "t", "s", "/", "g", "r", "p", "c">>,
                  http |-> <<"s", "r", "c", "/", "a", "p", "p", "l", "i", "c", "a", "t", "i", "o", "n", "/", "p", "o", "r", "t", "s", "/", "h", "t", "t", "p">> ] ],
          infrastructure |->
            [ adapters |->
                [ grpc |-> <<"s", "r", "c", "/", "i", "n", "f", "r", "a", "s", "t", "r", "u", "c", "t", "u", "r", "e", "/", "a", "d", "a", "p", "t", "e", "r", "s", "/", "g", "r", "p", "c">>,
                  http |-> <<"s", "r", "c", "/", "i", "n", "f", "r", "a", "s", "t", "r", "u", "c", "t", "u", "r", "e", "/", "a", "d", "a", "p", "t", "e", "r", "s", "/", "h", "t", "t", "p">>,
                  persistence |-> <<"s", "r", "c", "/", "i", "n", "f", "r", "a", "s", "t", "r", "u", "c", "t", "u", "r", "e", "/", "a", "d", "a", "p", "t", "e", "r", "s", "/", "p", "e", "r", "s", "i", "s", "t", "e", "n", "c", "e">> ],
              middleware |-> <<"s", "r", "c", "/", "i", "n", "f", "r", "a", "s", "t", "r", "u", "c", "t", "u", "r", "e", "/", "m", "i", "d", "d", "l", "e", "w", "a", "r", "e">> ],
          protos |-> <<"p", "r", "o", "t", "o", "s">> ] ]

\* { ...a, ...b }: the keys of both, b's value where both have the key
spread(a, b) == b @@ a

\* o?.k in spread position: spreading undefined adds no key
optional(o, k) == IF k \in DOMAIN o THEN o[k] ELSE EmptyObject

\* overrides.paths?.protos || defaults.paths.protos
protosOf(overrides, defaults) ==
    IF "paths" \in DOMAIN overrides /\ "protos" \in DOMAIN overrides.paths
       /\ ~falsy(overrides.paths.protos)
    THEN overrides.paths.protos
    ELSE defaults.paths.protos

mergeMetadata(defaults, overrides) ==
    LET paths == optional(overrides, "paths")
        application == optional(paths, "application")
        infrastructure == optional(paths, "infrastructure")
    IN  [ coreImports |-> spread(defaults.coreImports, optional(overrides, "coreImports")),
          paths |->
            [ domain |-> spread(defaults.paths.domain, optional(paths, "domain")),
              application |->
                [ ports |-> spread(defaults.paths.application.ports,
                                   optional(application, "ports")) ]
                @@ spread(defaults.paths.application, application),
              infrastructure |->
                [ adapters |-> spread(defaults.paths.infrastructure.adapters,
                                      optional(infrastructure, "adapters")) ]
                @@ spread(defaults.paths.infrastructure, infrastructure),
              protos |-> protosOf(overrides, defaults) ],
          options |-> spread(optional(defaults, "options"), optional(overrides, "options")) ]
        @@ spread(defaults, overrides)

\* the state of <root>/config/struktos.metadata.json
AbsentFile == [kind |-> "absent", content |-> EmptyObject]
UnreadableFile == [kind |-> "unreadable", content |-> EmptyObject]
UnparsableFile == [kind |-> "unparsable", content |-> EmptyObject]
JsonFile(doc) == [kind |-> "json", content |-> doc]

pathExists(file) == file.kind # "absent"

readJson(file) ==
    IF file.kind = "json" THEN Returned(file.content)
    ELSE Threw(file.kind, <<>>)

CouldNotRead == "Warning: Could not read struktos.metadata.json, using defaults"

\* the value returned and the lines written to the console
getMetadata(file) ==
    IF pathExists(file)
    THEN LET content == readJson(file)
         IN  IF content.threw
             THEN [value |-> DEFAULT_METADATA, warned |-> <<CouldNotRead>>]
             ELSE [value |-> mergeMetadata(DEFAULT_METADATA, content.value), warned |-> <<>>]
    ELSE [value |-> DEFAULT_METADATA, warned |-> <<>>]

\* a variant whose catch block writes the warning of getMetadata
getMetadataSyncWarns(file) == getMetadata(file)

getMetadataSync(file) ==
    IF pathExists(file)
    THEN LET content == readJson(file)
         IN  IF content.threw
             THEN [value |-> DEFAULT_METADATA, warned |-> <<>>]
             ELSE [value |-> mergeMetadata(DEFAULT_METADATA, content.value), warned |-> <<>>]
    ELSE [value |-> DEFAULT_METADATA, warned |-> <<>>]

----------------------------------------------------------------------------
(* Override documents and the calls of the metadata reader *)

LeafPaths ==
    { <<"version">>, <<"framework">>,
      <<"coreImports", "RequestContext">>, <<"coreImports", "IInterceptor">>,
      <<"coreImports", "ILogger">>, <<"coreImports", "NextFn">>,
      <<"coreImports", "IGrpcClientFactory">>, <<"coreImports", "GrpcContextData">>,
      <<"paths", "domain", "entities">>, <<"paths", "domain", "repositories">>,
      <<"paths", "domain", "services">>,
      <<"paths", "application", "useCases">>,
      <<"paths", "application", "ports", "grpc">>, <<"paths", "application", "ports", "http">>,
      <<"paths", "infrastructure", "adapters", "grpc">>,
      <<"paths", "infrastructure", "adapters", "http">>,
      <<"paths", "infrastructure", "adapters", "persistence">>,
      <<"paths", "infrastructure", "middleware">>,
      <<"paths", "protos">> }

BranchPaths ==
    { <<"coreImports">>, <<"paths">>, <<"paths", "domain">>, <<"paths", "application">>,
      <<"paths", "application", "ports">>, <<"paths", "infrastructure">>,
      <<"paths", "infrastructure", "adapters">> }

OverrideValues == { <<>>, <<"l", "i", "b">> }

IsPrefix(p, q) == Len(p) < Len(q) /\ SubSeq(q, 1, Len(p)) = p

RECURSIVE subsetsUpTo(_, _)
subsetsUpTo(S, n) ==
    IF n = 0 THEN {{}}
    ELSE LET smaller == subsetsUpTo(S, n - 1)
         IN  smaller \cup { c \cup {x} : c \in smaller, x \in S }

\* what an override document specifies: at most MaxOverrides nodes, a leaf
\* with a string or a branch with an empty object, none inside another
Overrides ==
    UNION { { f \in [chosen -> OverrideValues] :
                \A p \in chosen \cap BranchPaths : f[p] = <<>> } :
            chosen \in { c \in subsetsUpTo(LeafPaths \cup BranchPaths, MaxOverrides) :
                            \A p, q \in c : ~IsPrefix(p, q) } }

RECURSIVE document(_, _)
\* the JSON document that specifies exactly the nodes of ov
document(ov, prefix) ==
    LET below == { p \in DOMAIN ov : IsPrefix(prefix, p) }
        keys == { p[Len(prefix) + 1] : p \in below }
    IN  [ k \in keys |->
            IF Append(prefix, k) \in DOMAIN ov
            THEN IF Append(prefix, k) \in BranchPaths THEN EmptyObject ELSE ov[Append(prefix, k)]
            ELSE document(ov, Append(prefix, k)) ]

InitMetadata ==
    /\ pc = "start"
    /\ fn = "none"
    /\ segs \in Overrides
    /\ input = document(segs, <<>>)
    /\ \/ env = [config |-> JsonFile(input)]
       \/ /\ DOMAIN segs = {}
          /\ \/ env = [config |-> AbsentFile]
             \/ env = [config |-> UnreadableFile]
             \/ env = [config |-> UnparsableFile]
    /\ out = NotCalled
    /\ files = NoFiles
    /\ console = <<>>
    /\ templateCache = EmptyCache
    /\ renderers = <<>>
    /\ history = <<>>
GetMetadata ==
    /\ pc = "start"
    /\ pc' = "done"
    /\ fn' = "getMetadata"
    /\ LET read == getMetadata(env.config)
       IN  /\ out' = Returned(read.value)
           /\ console' = console \o read.warned
    /\ UNCHANGED <<segs, input, env, files, engine>>

GetMetadataSync ==
    /\ pc = "start"
    /\ pc' = "done"
    /\ fn' = "getMetadataSync"
    /\ LET read == getMetadataSync(env.config)
       IN  /\ out' = Returned(read.value)
           /\ console' = console \o read.warned
    /\ UNCHANGED <<segs, input, env, files, engine>>

NextMetadata == GetMetadata \/ GetMetadataSync

SpecMetadata == InitMetadata /\ [][NextMetadata]_vars

----------------------------------------------------------------------------
(* Properties of the metadata reader *)

RECURSIVE valueAt(_, _)
valueAt(tree, p) == IF Len(p) = 1 THEN tree[p[1]] ELSE valueAt(tree[p[1]], Tail(p))

ReadOverride ==
    /\ pc = "done"
    /\ fn \in {"getMetadata", "getMetadataSync"}
    /\ env.config.kind = "json"

\* C16: every leaf of the merged Metadata is the override's value where the
\* override document specifies that leaf, and the default's value otherwise.
C16_LeafByLeafMerge ==
    ReadOverride =>
        \A p \in LeafPaths :
            valueAt(out.value, p) =
                IF p \in DOMAIN segs THEN segs[p] ELSE valueAt(DEFAULT_METADATA, p)
ReadFailed ==
    /\ pc = "done"
    /\ fn \in {"getMetadata", "getMetadataSync"}
    /\ env.config.kind \in {"absent", "unreadable", "unparsable"}

----------------------------------------------------------------------------
(* Template renderer (template-renderer.ts) *)

\* path.join(__dirname, '..', 'templates')
BundledTemplatesDir == <<"/", "c", "l", "i", "/", "t", "e", "m", "p", "l", "a", "t", "e", "s">>

\* template bodies: literal text, {{key}} and {{timestamp}}
Text(s) == [kind |-> "text", arg |-> s]
Mustache(key) == [kind |-> "mustache", arg |-> key]
HelperCall(name) == [kind |-> "helper", arg |-> name]

\* new Date().toISOString().split('T')[0] on the given day of December 2025
timestamp(today) == <<"2", "0", "2", "5", "-", "1", "2", "-", "0">> \o << <<"0", "1", "2", "3", "4", "5", "6", "7", "8", "9">>[today + 1] >>

\* Handlebars.compile(source, {strict: false, noEscape: true}): the delegate
\* is a function of the source alone
compile(templateSource) == templateSource

\* calling a compiled template: a key missing from the context renders as ''
applyTemplate(compiled, context, today) ==
    LET piece(token) ==
            IF token.kind = "text" THEN token.arg
            ELSE IF token.kind = "helper" THEN timestamp(today)
            ELSE IF token.arg \in DOMAIN context THEN context[token.arg]
            ELSE <<>>
        RECURSIVE concatFrom(_)
        concatFrom(i) ==
            IF i > Len(compiled) THEN <<>> ELSE piece(compiled[i]) \o concatFrom(i + 1)
    IN  concatFrom(1)

\* new TemplateRenderer(options): `who` identifies the instance
TemplateRenderer(who, templatesDir, config) ==
    [ id |-> who,
      templatesDir |-> IF falsy(templatesDir) THEN BundledTemplatesDir ELSE templatesDir,
      metadata |-> getMetadataSync(config).value ]

cacheKey(templatesDir, templateName) == templatesDir \o <<":">> \o templateName

templatePathOf(templatesDir, templateName) == pathJoin(templatesDir, templateName \o <<".", "h", "b", "s">>)

\* templateCache.set(key, compiled); the entry remembers which instance compiled it
cacheSet(cache, key, compiled, who) ==
    [ k \in DOMAIN cache \cup {key} |->
        IF k = key THEN [compiled |-> compiled, by |-> who] ELSE cache[k] ]

\* a variant that stores an empty template for a missing file and returns it
getTemplateFallback(renderer, templateName, cache, disk) ==
    LET key == cacheKey(renderer.templatesDir, templateName)
        templatePath == templatePathOf(renderer.templatesDir, templateName)
        compiled == compile(IF templatePath \in DOMAIN disk THEN disk[templatePath] ELSE <<>>)
    IN  IF key \in DOMAIN cache
        THEN [outcome |-> Returned(cache[key].compiled), cache |-> cache,
              hit |-> TRUE, by |-> cache[key].by]
        ELSE [outcome |-> Returned(compiled),
              cache |-> cacheSet(cache, key, compiled, renderer.id),
              hit |-> FALSE, by |-> renderer.id]

\* TemplateRenderer.getTemplate: the delegate or the error, and the cache afterwards
getTemplate(renderer, templateName, cache, disk) ==
    LET key == cacheKey(renderer.templatesDir, templateName)
        templatePath == templatePathOf(renderer.templatesDir, templateName)
    IN  IF key \in DOMAIN cache
        THEN [outcome |-> Returned(cache[key].compiled), cache |-> cache,
              hit |-> TRUE, by |-> cache[key].by]
        ELSE IF templatePath \notin DOMAIN disk
        THEN [outcome |-> Threw("Template not found", templatePath), cache |-> cache,
              hit |-> FALSE, by |-> renderer.id]
        ELSE LET compiled == compile(disk[templatePath])
             IN  [outcome |-> Returned(compiled),
                  cache |-> cacheSet(cache, key, compiled, renderer.id),
                  hit |-> FALSE, by |-> renderer.id]

\* a variant in which the keys of data win: { metadata, coreImports, paths, ...data }
mergedDataDataLast(data, metadata) ==
    data @@ [ metadata |-> metadata,
              coreImports |-> metadata.coreImports,
              paths |-> metadata.paths ]

\* { ...data, metadata, coreImports, paths }
mergedData(data, metadata) ==
    [ metadata |-> metadata,
      coreImports |-> metadata.coreImports,
      paths |-> metadata.paths ] @@ data

\* TemplateRenderer.render
TemplateRenderer_render(renderer, templateName, data, cache, disk, today) ==
    LET template == getTemplate(renderer, templateName, cache, disk)
    IN  [ result |-> IF template.outcome.threw THEN template.outcome
                     ELSE Returned(applyTemplate(template.outcome.value,
                                                 mergedData(data, renderer.metadata), today)),
          context |-> IF template.outcome.threw THEN EmptyObject
                      ELSE mergedData(data, renderer.metadata),
          cache |-> template.cache,
          hit |-> template.hit,
          by |-> template.by ]

\* TemplateRenderer.clearCache (static)
clearCache(cache) == EmptyCache

----------------------------------------------------------------------------
(* Use-case orchestrator (useCaseGenerator.ts) *)

\* a variant that takes the default for every falsy option (options.x || true)
optionOrTruthy(options, key, default) ==
    IF key \in DOMAIN options /\ options[key] # FALSE THEN options[key] ELSE default

\* const { withX = true } = options
optionOr(options, key, default) == IF key \in DOMAIN options THEN options[key] ELSE default

UseCaseTemplate == <<"u", "s", "e", "-", "c", "a", "s", "e", "/", "d", "e", "f", "a", "u", "l", "t">>

generateUseCaseData(action, entityName, options, metadata, cwd) ==
    LET actionPascal == toPascalCase(action)
        entityPascal == toPascalCase(entityName)
        kebabEntity == toKebabCase(entityName)
        kebabAction == toKebabCase(action)
        currentFilePath ==
            pathJoin(pathJoin(metadata.paths.application.useCases, kebabEntity),
                     kebabAction \o <<"-">> \o kebabEntity \o <<".", "u", "s", "e", "-", "c", "a", "s", "e", ".", "t", "s">>)
        repositoryPath ==
            pathJoin(metadata.paths.domain.repositories, <<"I">> \o entityPascal \o <<"R", "e", "p", "o", "s", "i", "t", "o", "r", "y">>)
        entityPath ==
            pathJoin(metadata.paths.domain.entities, entityPascal \o <<".", "e", "n", "t", "i", "t", "y">>)
    IN  [ action |-> actionPascal,
          actionLower |-> toLowerCase(action),
          entity |-> entityPascal,
          entityLower |-> toCamelCase(entityName),
          needsRepository |-> optionOr(options, "withRepository", TRUE),
          needsLogger |-> optionOr(options, "withLogger", TRUE),
          needsValidation |-> optionOr(options, "withValidation", TRUE),
          currentFilePath |-> currentFilePath,
          repositoryImportPath |-> resolveImportPath(repositoryPath, currentFilePath, cwd),
          entityImportPath |-> resolveImportPath(entityPath, currentFilePath, cwd),
          coreImports |-> metadata.coreImports ]

\* generateUseCase: a renderer of its own, the metadata of the project, one render
generateUseCase(action, entityName, options, who, config, cwd, cache, disk, today) ==
    LET renderer == TemplateRenderer(who, <<>>, config)
        metadata == getMetadataSync(config).value
    IN  TemplateRenderer_render(renderer, UseCaseTemplate,
                                generateUseCaseData(action, entityName, options, metadata, cwd),
                                cache, disk, today)
----------------------------------------------------------------------------
(* Renderers, template files and the calls made on them *)

PlainSource == << Text(<<"c", "l", "a", "s", "s", " ">>), Mustache("entity") >>
DatedSource == << Mustache("entity"), Text(<<" ">>), HelperCall("timestamp") >>
TemplateSources == { PlainSource, DatedSource }

UseCaseTemplateFile == templatePathOf(BundledTemplatesDir, UseCaseTemplate)

\* the template root on disk: the use-case template is there or not
NoTemplates == [p \in {} |-> <<>>]
TemplatesWith(source) == [p \in {UseCaseTemplateFile} |-> source]
TemplateDisks == {NoTemplates} \cup { TemplatesWith(source) : source \in TemplateSources }

RenderData == [entity |-> <<"U", "s", "e", "r">>]

UseCaseOptions == { EmptyObject, [withLogger |-> FALSE] }

\* one entry of the call history
Event(op, who, args, run, disk) ==
    [ op |-> op, who |-> who, args |-> args, context |-> run.context,
      hit |-> run.hit, by |-> run.by, result |-> run.result, disk |-> disk ]

NoRun == [hit |-> FALSE, by |-> 0, result |-> NotCalled, context |-> EmptyObject]

InitEngine ==
    /\ pc = "start"
    /\ fn = "none"
    /\ segs = <<>>
    /\ input = <<>>
    /\ \E disk \in TemplateDisks :
          env = [config |-> AbsentFile, cwd |-> ProjectCwd, templates |-> disk, today |-> 1]
    /\ out = NotCalled
    /\ files = NoFiles
    /\ console = <<>>
    /\ templateCache = EmptyCache
    /\ renderers = << TemplateRenderer(1, <<>>, AbsentFile), TemplateRenderer(2, <<>>, AbsentFile) >>
    /\ history = <<>>

\* renderer.render('use-case/default', data) on one of the two instances
Render ==
    /\ Len(history) < MaxCalls
    /\ \E r \in DOMAIN renderers :
          LET run == TemplateRenderer_render(renderers[r], UseCaseTemplate, RenderData,
                                             templateCache, env.templates, env.today)
          IN  /\ templateCache' = run.cache
              /\ out' = run.result
              /\ history' = Append(history,
                                   Event("render", renderers[r].id,
                                         [name |-> UseCaseTemplate, data |-> RenderData],
                                         run, env.templates))
    /\ pc' = "done"
    /\ fn' = "render"
    /\ UNCHANGED <<segs, input, env, files, console, renderers>>

\* TemplateRenderer.clearCache()
ClearCache ==
    /\ Len(history) < MaxCalls
    /\ templateCache' = clearCache(templateCache)
    /\ out' = Returned(Undefined)
    /\ history' = Append(history, Event("clearCache", 0, EmptyObject, NoRun, env.templates))
    /\ pc' = "done"
    /\ fn' = "clearCache"
    /\ UNCHANGED <<segs, input, env, files, console, renderers>>

\* generateUseCase('get', 'user', options)
GenerateUseCase ==
    /\ Len(history) < MaxCalls
    /\ \E options \in UseCaseOptions :
          LET who == Len(renderers) + Len(history) + 1
              run == generateUseCase(<<"g", "e", "t">>, <<"u", "s", "e", "r">>, options, who, env.config, env.cwd,
                                     templateCache, env.templates, env.today)
          IN  /\ templateCache' = run.cache
              /\ out' = run.result
              /\ history' = Append(history,
                                   Event("generateUseCase", who,
                                         [action |-> <<"g", "e", "t">>, entityName |-> <<"u", "s", "e", "r">>,
                                          options |-> options],
                                         run, env.templates))
    /\ pc' = "done"
    /\ fn' = "generateUseCase"
    /\ UNCHANGED <<segs, input, env, files, console, renderers>>

\* somebody replaces, creates or removes the template file
EditTemplate ==
    /\ Len(history) < MaxCalls
    /\ \E disk \in TemplateDisks \ {env.templates} :
          /\ env' = [env EXCEPT !.templates = disk]
          /\ history' = Append(history, Event("edit", 0, EmptyObject, NoRun, disk))
    /\ UNCHANGED <<pc, fn, segs, input, out, files, console, templateCache, renderers>>

\* midnight passes
Tick ==
    /\ Len(history) < MaxCalls
    /\ env' = [env EXCEPT !.today = env.today + 1]
    /\ history' = Append(history, Event("tick", 0, EmptyObject, NoRun, env.templates))
    /\ UNCHANGED <<pc, fn, segs, input, out, files, console, templateCache, renderers>>

NextEngine == Render \/ ClearCache \/ GenerateUseCase \/ EditTemplate \/ Tick

SpecEngine == InitEngine /\ [][NextEngine]_vars
----------------------------------------------------------------------------
(* Properties of the template engine *)

IsRenderCall(e) == e.op \in {"render", "generateUseCase"}

UseCaseKey == cacheKey(BundledTemplatesDir, UseCaseTemplate)

\* C18: a render of a template name with no template file and no cached
\* compiled form throws "Template not found" at once: it returns no text,
\* and it leaves the template cache as it was.
C18_MissingTemplateThrows ==
    [][ ( /\ Len(history') = Len(history) + 1
          /\ IsRenderCall(history'[Len(history')])
          /\ UseCaseTemplateFile \notin DOMAIN env.templates
          /\ UseCaseKey \notin DOMAIN templateCache )
        => ( /\ out'.threw
             /\ out'.error.msg = "Template not found"
             /\ templateCache' = templateCache ) ]_vars

C18_Witness ==
    /\ history # <<>>
    /\ history[Len(history)].op = "render"
    /\ UseCaseTemplateFile \notin DOMAIN history[Len(history)].disk
    /\ ~history[Len(history)].hit
    /\ out.threw
    /\ out.error.token = UseCaseTemplateFile
    /\ UseCaseKey \notin DOMAIN templateCache

\* C19: a compiled template is served from the cache only to the
\* TemplateRenderer instance that compiled and cached it.
C19_InstanceScopedCache ==
    \A i \in DOMAIN history :
        (IsRenderCall(history[i]) /\ history[i].hit) => history[i].by = history[i].who

\* C20: two generateUseCase calls with the same name and options, the same
\* Metadata and no change of the template files between them return the
\* same text, whatever was called and however much time passed in between.
C20_Deterministic ==
    \A i, j \in DOMAIN history :
        ( /\ i < j
          /\ history[i].op = "generateUseCase"
          /\ history[j].op = "generateUseCase"
          /\ history[i].args = history[j].args
          /\ \A k \in i..j : history[k].disk = history[i].disk )
        => history[i].result = history[j].result
----------------------------------------------------------------------------
(* The 'generate use-case' subcommand and direct calls of the orchestrator *)

NoFlags == {}
UseCaseFlags == {"--no-repository", "--no-logger", "--no-validation"}

\* commander: a --no-x option is true unless the flag is given
commanderOptions(flags) ==
    [ repository |-> "--no-repository" \notin flags,
      logger |-> "--no-logger" \notin flags,
      validation |-> "--no-validation" \notin flags ]

\* the options object the use-case subcommand hands to generateUseCaseFile
useCaseActionOptions(options) ==
    [ withRepository |-> options.repository # FALSE,
      withLogger |-> options.logger # FALSE,
      withValidation |-> options.validation # FALSE ]

\* path.join('src/application/use-cases', kebabEntity)
useCaseDirOf(kebabEntity) == pathJoin(<<"s", "r", "c", "/", "a", "p", "p", "l", "i", "c", "a", "t", "i", "o", "n", "/", "u", "s", "e", "-", "c", "a", "s", "e", "s">>, kebabEntity)

\* generateUseCaseFile under the try/catch of the subcommand: the file it
\* writes, the outcome of the command and the render it made
generateUseCaseFile(action, entityName, options, who, isProject, config, cwd, cache, disk, today) ==
    LET checkAction == validateEntityName(action)
        checkEntity == validateEntityName(entityName)
        kebabAction == toKebabCase(action)
        kebabEntity == toKebabCase(entityName)
        useCaseDir == useCaseDirOf(kebabEntity)
        run == generateUseCase(action, entityName, options, who, config, cwd, cache, disk, today)
        fileName == kebabAction \o <<"-">> \o kebabEntity \o <<".", "u", "s", "e", "-", "c", "a", "s", "e", ".", "t", "s">>
        idle == [result |-> NotCalled, context |-> EmptyObject, cache |-> cache,
                 hit |-> FALSE, by |-> 0]
    IN  IF checkAction.threw
        THEN [written |-> {}, run |-> idle,
              result |-> CommandResult(TRUE, Exit1, checkAction.error.msg, action)]
        ELSE IF checkEntity.threw
        THEN [written |-> {}, run |-> idle,
              result |-> CommandResult(TRUE, Exit1, checkEntity.error.msg, entityName)]
        ELSE IF ~isProject
        THEN [written |-> {}, run |-> idle,
              result |-> CommandResult(FALSE, Exit1, "Not a Struktos project!", <<>>)]
        ELSE IF run.result.threw
        THEN [written |-> {}, run |-> run,
              result |-> CommandResult(TRUE, Exit1, run.result.error.msg, run.result.error.token)]
        ELSE [written |-> {[path |-> pathJoin(useCaseDir, fileName), content |-> run.result.value]},
              run |-> run,
              result |-> CommandResult(FALSE, Exit0, "none", <<>>)]

ActionNames == { <<"g", "e", "t">> }
EntityNames == { <<"u", "s", "e", "r">>, <<"O", "r", "d", "e", "r", "I", "t", "e", "m">>, <<"a", "-", "b">> }

UseCaseDirLeaves ==
    { <<"paths", "application", "useCases">>,
      <<"paths", "domain", "repositories">>,
      <<"paths", "domain", "entities">> }

DirValues == { <<"l", "i", "b">>, <<"s", "r", "c", "/", "c", "o", "r", "e">> }

\* override documents that move some of the directories the use case refers to
UseCaseOverrides ==
    UNION { [chosen -> DirValues] : chosen \in SUBSET UseCaseDirLeaves }

AllUseCaseOptions ==
    UNION { [given -> BOOLEAN] :
            given \in SUBSET {"withRepository", "withLogger", "withValidation"} }

ContextData ==
    { RenderData,
      [entity |-> <<"U", "s", "e", "r">>, paths |-> [protos |-> <<"m", "i", "n", "e">>]],
      [entity |-> <<"U", "s", "e", "r">>, metadata |-> [version |-> <<"0">>],
       coreImports |-> [ILogger |-> <<"m", "i", "n", "e">>]] }

PlainDisk == TemplatesWith(PlainSource)

\* one call per behaviour: a render, the orchestrator, or the subcommand
UseCaseCalls ==
    { [call |-> "render", options |-> EmptyObject, flags |-> NoFlags, data |-> d] :
        d \in ContextData }
    \cup { [call |-> "generateUseCase", options |-> o, flags |-> NoFlags, data |-> EmptyObject] :
        o \in AllUseCaseOptions }
    \cup { [call |-> "command", options |-> EmptyObject, flags |-> f, data |-> EmptyObject] :
        f \in SUBSET UseCaseFlags }

InitUseCase ==
    /\ pc = "start"
    /\ fn = "none"
    /\ segs \in UseCaseOverrides
    /\ \E c \in UseCaseCalls, a \in ActionNames, e \in EntityNames :
          input = [call |-> c.call, options |-> c.options, flags |-> c.flags, data |-> c.data,
                   action |-> a, entityName |-> e]
    /\ \E isProject \in BOOLEAN :
          env = [config |-> JsonFile(document(segs, <<>>)), cwd |-> ProjectCwd,
                 templates |-> PlainDisk, today |-> 1, isProject |-> isProject]
    /\ out = NotCalled
    /\ files = NoFiles
    /\ console = <<>>
    /\ templateCache = EmptyCache
    /\ renderers = <<>>
    /\ history = <<>>

\* new TemplateRenderer().render('use-case/default', data)
RenderWithData ==
    /\ pc = "start"
    /\ input.call = "render"
    /\ pc' = "done"
    /\ fn' = "render"
    /\ LET renderer == TemplateRenderer(1, <<>>, env.config)
           run == TemplateRenderer_render(renderer, UseCaseTemplate, input.data,
                                          templateCache, env.templates, env.today)
       IN  /\ renderers' = <<renderer>>
           /\ templateCache' = run.cache
           /\ out' = run.result
           /\ history' = Append(history,
                                Event("render", 1, [name |-> UseCaseTemplate, data |-> input.data],
                                      run, env.templates))
    /\ UNCHANGED <<segs, input, env, files, console>>

\* generateUseCase(action, entityName, options)
CallGenerateUseCase ==
    /\ pc = "start"
    /\ input.call = "generateUseCase"
    /\ pc' = "done"
    /\ fn' = "generateUseCase"
    /\ LET run == generateUseCase(input.action, input.entityName, input.options, 1,
                                  env.config, env.cwd, templateCache, env.templates, env.today)
       IN  /\ templateCache' = run.cache
           /\ out' = run.result
           /\ history' = Append(history,
                                Event("generateUseCase", 1,
                                      [action |-> input.action, entityName |-> input.entityName,
                                       options |-> input.options],
                                      run, env.templates))
    /\ UNCHANGED <<segs, input, env, files, console, renderers>>

\* struktos generate use-case <action> -e <entity> [flags]
GenerateUseCaseCommand ==
    /\ pc = "start"
    /\ input.call = "command"
    /\ pc' = "done"
    /\ fn' = "generate use-case"
    /\ LET options == useCaseActionOptions(commanderOptions(input.flags))
           cmd == generateUseCaseFile(input.action, input.entityName, options, 1,
                                      env.isProject, env.config, env.cwd,
                                      templateCache, env.templates, env.today)
       IN  /\ files' = files \cup cmd.written
           /\ templateCache' = cmd.run.cache
           /\ out' = cmd.result
           /\ history' = Append(history,
                                Event("generateUseCase", 1,
                                      [action |-> input.action, entityName |-> input.entityName,
                                       options |-> options],
                                      cmd.run, env.templates))
    /\ UNCHANGED <<segs, input, env, console, renderers>>

NextUseCase == RenderWithData \/ CallGenerateUseCase \/ GenerateUseCaseCommand

SpecUseCase == InitUseCase /\ [][NextUseCase]_vars

----------------------------------------------------------------------------
(* Properties of the use-case orchestrator *)

HandedContext == history[Len(history)].context

OrchestratorRendered ==
    /\ pc = "done"
    /\ fn \in {"generateUseCase", "generate use-case"}
    /\ history # <<>>
    /\ ~history[Len(history)].result.threw
    /\ history[Len(history)].result # NotCalled

GivenOrOn(key) == IF key \in DOMAIN input.options THEN input.options[key] ELSE TRUE

\* C21: needsRepository, needsLogger and needsValidation each equal their own
\* option when it is given and are true when it is omitted, whatever the
\* other two options are; each --no-x flag switches off exactly its own flag.
C21_IndependentToggles ==
    /\ (OrchestratorRendered /\ fn = "generateUseCase") =>
          /\ HandedContext.needsRepository = GivenOrOn("withRepository")
          /\ HandedContext.needsLogger = GivenOrOn("withLogger")
          /\ HandedContext.needsValidation = GivenOrOn("withValidation")
    /\ (OrchestratorRendered /\ fn = "generate use-case") =>
          /\ HandedContext.needsRepository = ("--no-repository" \notin input.flags)
          /\ HandedContext.needsLogger = ("--no-logger" \notin input.flags)
          /\ HandedContext.needsValidation = ("--no-validation" \notin input.flags)

C21_Witness ==
    /\ OrchestratorRendered
    /\ fn = "generate use-case"
    /\ input.flags = {"--no-logger"}
    /\ HandedContext.needsRepository
    /\ ~HandedContext.needsLogger
    /\ HandedContext.needsValidation
----------------------------------------------------------------------------
(* Entity and service generation commands (generate.ts) *)

IdField == [name |-> <<"i", "d">>, type |-> <<"s", "t", "r", "i", "n", "g">>, optional |-> FALSE]

\* fields.some(f => f.name.toLowerCase() === 'id')
hasIdField(fields) == \E i \in 1..Len(fields) : toLowerCase(fields[i].name) = <<"i", "d">>

\* a variant that looks for the exact name 'id'
ensureIdFieldExact(fields) ==
    IF \E i \in 1..Len(fields) : fields[i].name = <<"i", "d">> THEN fields ELSE <<IdField>> \o fields

\* if (!hasIdField) fields = [{name: 'id', type: 'string', optional: false}, ...fields]
ensureIdField(fields) == IF hasIdField(fields) THEN fields ELSE <<IdField>> \o fields

\* a file handed to the file system: its path and what generated its content
Generated(path, generator, name, fields) ==
    [path |-> path, content |-> [generator |-> generator, name |-> name, fields |-> fields]]

\* the writes of generateDomainLayer, generateRepositoryLayer and
\* generateApplicationLayer, in the order they are awaited
entityWrites(entityName, fields) ==
    LET className == toPascalCase(entityName)
        kebabName == toKebabCase(entityName)
        useCase(prefix, suffix, generator) ==
            Generated(pathJoin(<<"s", "r", "c", "/", "a", "p", "p", "l", "i", "c", "a", "t", "i", "o", "n", "/", "u", "s", "e", "-", "c", "a", "s", "e", "s">>,
                               prefix \o kebabName \o suffix \o <<".", "u", "s", "e", "c", "a", "s", "e", ".", "t", "s">>),
                      generator, entityName, fields)
    IN  << Generated(pathJoin(<<"s", "r", "c", "/", "d", "o", "m", "a", "i", "n", "/", "e", "n", "t", "i", "t", "i", "e", "s">>, className \o <<".", "e", "n", "t", "i", "t", "y", ".", "t", "s">>),
                     "generateEntityFile", entityName, fields),
           Generated(pathJoin(<<"s", "r", "c", "/", "d", "o", "m", "a", "i", "n", "/", "r", "e", "p", "o", "s", "i", "t", "o", "r", "i", "e", "s">>, <<"I">> \o className \o <<"R", "e", "p", "o", "s", "i", "t", "o", "r", "y", ".", "t", "s">>),
                     "generateRepositoryInterface", entityName, fields),
           Generated(pathJoin(<<"s", "r", "c", "/", "i", "n", "f", "r", "a", "s", "t", "r", "u", "c", "t", "u", "r", "e", "/", "a", "d", "a", "p", "t", "e", "r", "s", "/", "p", "e", "r", "s", "i", "s", "t", "e", "n", "c", "e">>,
                              className \o <<".", "r", "e", "p", "o", "s", "i", "t", "o", "r", "y", ".", "t", "s">>),
                     "generateRepositoryImplementation", entityName, fields),
           useCase(<<"c", "r", "e", "a", "t", "e", "-">>, <<>>, "generateCreateUseCase"),
           useCase(<<"g", "e", "t", "-">>, <<>>, "generateGetUseCase"),
           useCase(<<"l", "i", "s", "t", "-">>, <<"s">>, "generateListUseCase"),
           useCase(<<"u", "p", "d", "a", "t", "e", "-">>, <<>>, "generateUpdateUseCase"),
           useCase(<<"d", "e", "l", "e", "t", "e", "-">>, <<>>, "generateDeleteUseCase") >>

\* the writes of generateGrpcService
grpcServiceWrites(serviceName, methods) ==
    LET kebabName == toKebabCase(serviceName)
    IN  << Generated(pathJoin(<<"p", "r", "o", "t", "o", "s">>, kebabName \o <<".", "p", "r", "o", "t", "o">>),
                     "generateProtoFile", serviceName, methods),
           Generated(pathJoin(<<"s", "r", "c", "/", "i", "n", "f", "r", "a", "s", "t", "r", "u", "c", "t", "u", "r", "e", "/", "a", "d", "a", "p", "t", "e", "r", "s", "/", "g", "r", "p", "c">>, kebabName \o <<".", "s", "e", "r", "v", "i", "c", "e", ".", "g", "r", "p", "c", ".", "t", "s">>),
                     "generateGrpcServiceHandler", serviceName, methods),
           Generated(pathJoin(<<"s", "r", "c", "/", "i", "n", "f", "r", "a", "s", "t", "r", "u", "c", "t", "u", "r", "e", "/", "a", "d", "a", "p", "t", "e", "r", "s", "/", "g", "r", "p", "c">>, kebabName \o <<".", "r", "e", "g", "i", "s", "t", "r", "a", "t", "i", "o", "n", ".", "t", "s">>),
                     "generateServiceRegistration", serviceName, <<>>) >>

\* a variant that removes what it wrote when a write raises
awaitWritesRollback(plan, failAt) ==
    IF failAt \in 1..Len(plan)
    THEN [written |-> {}, threw |-> TRUE, failed |-> plan[failAt].path]
    ELSE [written |-> {plan[i] : i \in 1..Len(plan)}, threw |-> FALSE, failed |-> <<>>]

\* the awaited writes in order: the one numbered failAt raises (0: none does)
awaitWrites(plan, failAt) ==
    IF failAt \in 1..Len(plan)
    THEN [written |-> {plan[i] : i \in 1..(failAt - 1)}, threw |-> TRUE,
          failed |-> plan[failAt].path]
    ELSE [written |-> {plan[i] : i \in 1..Len(plan)}, threw |-> FALSE, failed |-> <<>>]

NoPlan == [fields |-> <<>>, plan |-> <<>>]

\* generateEntity under the try/catch of the entity subcommand
generateEntity(entityName, fieldsInput, isProject, failAt) ==
    LET check == validateEntityName(entityName)
        parsed == IF falsy(fieldsInput) THEN Returned(<<>>) ELSE parseFields(fieldsInput)
        fields == ensureIdField(parsed.value)
        plan == entityWrites(entityName, fields)
        writes == awaitWrites(plan, failAt)
    IN  IF check.threw
        THEN [written |-> {}, work |-> NoPlan,
              result |-> CommandResult(TRUE, Exit1, check.error.msg, entityName)]
        ELSE IF parsed.threw
        THEN [written |-> {}, work |-> NoPlan,
              result |-> CommandResult(TRUE, Exit1, parsed.error.msg, parsed.error.token)]
        ELSE IF ~isProject
        THEN [written |-> {}, work |-> [fields |-> fields, plan |-> <<>>],
              result |-> CommandResult(FALSE, Exit1, "Not a Struktos project!", <<>>)]
        ELSE IF writes.threw
        THEN [written |-> writes.written, work |-> [fields |-> fields, plan |-> plan],
              result |-> CommandResult(TRUE, Exit1, "write failed", writes.failed)]
        ELSE [written |-> writes.written, work |-> [fields |-> fields, plan |-> plan],
              result |-> CommandResult(FALSE, Exit0, "none", <<>>)]

\* generateGrpcService under the try/catch of the service subcommand
generateGrpcService(serviceName, methods, failAt) ==
    LET plan == grpcServiceWrites(serviceName, methods)
        writes == awaitWrites(plan, failAt)
    IN  IF writes.threw
        THEN [written |-> writes.written, work |-> [fields |-> methods, plan |-> plan],
              result |-> CommandResult(TRUE, Exit1, "write failed", writes.failed)]
        ELSE [written |-> writes.written, work |-> [fields |-> methods, plan |-> plan],
              result |-> CommandResult(FALSE, Exit0, "none", <<>>)]

FeatureNames == { <<"u", "s", "e", "r">>, <<"O", "r", "d", "e", "r", "I", "t", "e", "m">>, <<"a", "-", "b">> }

FieldsInputs ==
    { Undefined, <<>>, <<"n", "a", "m", "e", ":", "s", "t", "r", "i", "n", "g">>, <<"i", "d", ":", "n", "u", "m", "b", "e", "r">>, <<"I", "D", ":", "s", "t", "r", "i", "n", "g", ",", "a", ":", "a", "n", "y">>,
      <<"a", ":", "a", "n", "y", ",", "I", "d", ":", "d", "a", "t", "e", "?">>, <<"i", "d", "x", ":", "s", "t", "r", "i", "n", "g", ",", "b", ":", "b", "o", "o", "l", "e", "a", "n">>, <<"x">> }

DefaultMethods == << <<"g", "e", "t">>, <<"l", "i", "s", "t">>, <<"c", "r", "e", "a", "t", "e">>, <<"u", "p", "d", "a", "t", "e">>, <<"d", "e", "l", "e", "t", "e">> >>

\* the most files one feature writes
MostWrites == 8

InitEntity ==
    /\ pc = "start"
    /\ fn = "none"
    /\ segs = <<>>
    /\ \E n \in FeatureNames, f \in FieldsInputs : input = [name |-> n, fields |-> f]
    /\ \E p \in BOOLEAN, k \in 0..MostWrites : env = [isProject |-> p, failAt |-> k]
    /\ out = NotCalled
    /\ files = NoFiles
    /\ console = <<>>
    /\ templateCache = EmptyCache
    /\ renderers = <<>>
    /\ history = <<>>

\* struktos generate entity <name> [--fields <fields>]
GenerateEntity ==
    /\ pc = "start"
    /\ pc' = "done"
    /\ fn' = "generate entity"
    /\ LET run == generateEntity(input.name, input.fields, env.isProject, env.failAt)
       IN  /\ files' = files \cup run.written
           /\ out' = run.result
           /\ history' = Append(history, run.work)
    /\ UNCHANGED <<segs, input, env, console, templateCache, renderers>>

\* generateGrpcService(serviceName, methods), reached from 'generate service'
GenerateGrpcService ==
    /\ pc = "start"
    /\ env.isProject
    /\ ~validateEntityName(input.name).threw
    /\ pc' = "done"
    /\ fn' = "generateGrpcService"
    /\ LET run == generateGrpcService(input.name, DefaultMethods, env.failAt)
       IN  /\ files' = files \cup run.written
           /\ out' = run.result
           /\ history' = Append(history, run.work)
    /\ UNCHANGED <<segs, input, env, console, templateCache, renderers>>

NextEntity == GenerateEntity \/ GenerateGrpcService

SpecEntity == InitEntity /\ [][NextEntity]_vars

----------------------------------------------------------------------------
(* Properties of entity and service generation *)

EntityPlanned ==
    /\ pc = "done"
    /\ fn = "generate entity"
    /\ history[1].plan # <<>>

ParsedInput == IF falsy(input.fields) THEN <<>> ELSE parseFields(input.fields).value

IsIdName(name) == Len(name) = 2 /\ name[1] \in {"i", "I"} /\ name[2] \in {"d", "D"}

FeatureFailedAt(k) ==
    /\ pc = "done"
    /\ fn \in {"generate entity", "generateGrpcService"}
    /\ env.failAt = k
    /\ k \in 1..Len(history[1].plan)

\* C23: when step k of a feature's generation raises, the files of steps
\* 1..k-1 are on disk as written, no file of a later step is, and the
\* command ends with the error and exit code 1.
C23_NoRollback ==
    \A k \in 1..MostWrites :
        FeatureFailedAt(k) =>
            /\ \A i \in 1..(k - 1) : history[1].plan[i] \in files
            /\ \A i \in (k + 1)..Len(history[1].plan) : history[1].plan[i] \notin files
            /\ out.threw
            /\ out.value = Exit1

C23_Witness ==
    /\ FeatureFailedAt(3)
    /\ fn = "generate entity"
    /\ Cardinality(files) = 2
    /\ history[1].plan[2] \in files
    /\ history[1].plan[3] \notin files
    /\ out.threw
----------------------------------------------------------------------------
(* Renderers with template roots of their own *)

TemplateDirs == { <<"t">>, <<"t", ":", "x">> }
TemplateNames == { <<"d">>, <<"x", ":", "d">> }

\* every template file holds text that names its own root and template name
OwnSource(templatesDir, templateName) == << Text(templatesDir \o <<" ">> \o templateName) >>

RootsDisk ==
    [ p \in { templatePathOf(dir, name) : dir \in TemplateDirs, name \in TemplateNames } |->
        LET pair == CHOOSE pr \in TemplateDirs \X TemplateNames : templatePathOf(pr[1], pr[2]) = p
        IN  OwnSource(pair[1], pair[2]) ]

InitRoots ==
    /\ pc = "start"
    /\ fn = "none"
    /\ segs = <<>>
    /\ input = <<>>
    /\ env = [config |-> AbsentFile, cwd |-> ProjectCwd, templates |-> RootsDisk, today |-> 1]
    /\ out = NotCalled
    /\ files = NoFiles
    /\ console = <<>>
    /\ templateCache = EmptyCache
    /\ \E d1 \in TemplateDirs, d2 \in TemplateDirs :
          renderers = << TemplateRenderer(1, d1, AbsentFile), TemplateRenderer(2, d2, AbsentFile) >>
    /\ history = <<>>

\* renderer.render(templateName, data) for a renderer created with a templatesDir
RenderTemplate ==
    /\ Len(history) < MaxCalls
    /\ \E r \in DOMAIN renderers, name \in TemplateNames :
          LET run == TemplateRenderer_render(renderers[r], name, RenderData,
                                             templateCache, env.templates, env.today)
          IN  /\ templateCache' = run.cache
              /\ out' = run.result
              /\ history' = Append(history,
                                   Event("render", renderers[r].id,
                                         [name |-> name, data |-> RenderData],
                                         run, env.templates))
    /\ pc' = "done"
    /\ fn' = "render"
    /\ UNCHANGED <<segs, input, env, files, console, renderers>>

NextRoots == RenderTemplate \/ ClearCache

SpecRoots == InitRoots /\ [][NextRoots]_vars

----------------------------------------------------------------------------
(* Properties of the cache key *)

RootOf(e) == renderers[e.who].templatesDir

SamePair(e1, e2) == RootOf(e1) = RootOf(e2) /\ e1.args.name = e2.args.name

\* C24: after a successful render of a (templateRoot, templateName) pair,
\* every later render of that pair is served from the cache until the cache
\* is cleared, and a render is never served the template of another pair.
C24_CachePerPair ==
    /\ \A i, j \in DOMAIN history :
          ( /\ i < j
            /\ history[i].op = "render" /\ history[j].op = "render"
            /\ SamePair(history[i], history[j])
            /\ ~history[i].result.threw
            /\ \A k \in i..j : history[k].op # "clearCache" )
          => history[j].hit
    /\ \A j \in DOMAIN history :
          (history[j].op = "render" /\ ~history[j].result.threw)
          => history[j].result.value = RootOf(history[j]) \o <<" ">> \o history[j].args.name
ReservedKeys == {"metadata", "coreImports", "paths"}

RenderedWithData ==
    /\ pc = "done"
    /\ fn = "render"
    /\ input.call = "render"
    /\ ~out.threw

\* C25: the context handed to the template has every key of the caller's
\* data and the keys metadata, coreImports and paths; these three hold the
\* renderer's own Metadata values even when data has a key of that name, the
\* other keys hold data's values, and data is as it was before the call.
C25_ContextAssembly ==
    RenderedWithData =>
        /\ DOMAIN HandedContext = DOMAIN input.data \cup ReservedKeys
        /\ \A k \in DOMAIN input.data \ ReservedKeys : HandedContext[k] = input.data[k]
        /\ HandedContext.metadata = renderers[1].metadata
        /\ HandedContext.coreImports = renderers[1].metadata.coreImports
        /\ HandedContext.paths = renderers[1].metadata.paths
        /\ history[1].args.data = input.data

C25_Witness ==
    /\ RenderedWithData
    /\ "paths" \in DOMAIN input.data
    /\ input.data.paths = [protos |-> <<"m", "i", "n", "e">>]
    /\ HandedContext.paths = renderers[1].metadata.paths
    /\ HandedContext.entity = <<"U", "s", "e", "r">>
----------------------------------------------------------------------------
(* Template helpers registered by registerHelpers (template-renderer.ts) *)

HelperSeparators == WhiteSpace \cup {"-", "_"}

\* str.replace(/[-_\s]+(.)?/g, (_, c) => (c ? c.toUpperCase() : ''))
RECURSIVE replaceSeparatorRuns(_)
replaceSeparatorRuns(s) ==
    IF s = <<>> THEN <<>>
    ELSE IF s[1] \in HelperSeparators
    THEN IF Len(s) >= 2 /\ s[2] \in HelperSeparators
         THEN replaceSeparatorRuns(Tail(s))
         ELSE IF Len(s) >= 2
         THEN <<upperChar(s[2])>> \o replaceSeparatorRuns(SubSeq(s, 3, Len(s)))
         ELSE <<>>
    ELSE <<s[1]>> \o replaceSeparatorRuns(Tail(s))

\* str.replace(/^./, (c) => c.toUpperCase())
upperFirstChar(s) == IF s = <<>> THEN s ELSE <<upperChar(s[1])>> \o Tail(s)

camelCaseHelper(str) ==
    IF falsy(str) THEN <<>> ELSE <<lowerChar(str[1])>> \o Tail(str)

pascalCaseHelper(str) ==
    IF falsy(str) THEN <<>> ELSE upperFirstChar(replaceSeparatorRuns(str))

kebabCaseHelper(str) ==
    IF falsy(str) THEN <<>>
    ELSE toLowerCase(replaceRuns(splitCamel(str, "-"), WhiteSpace \cup {"_"}, "-"))

snakeCaseHelper(str) ==
    IF falsy(str) THEN <<>>
    ELSE toLowerCase(replaceRuns(splitCamel(str, "_"), WhiteSpace \cup {"-"}, "_"))

pluralizeHelper(str) ==
    IF falsy(str) THEN <<>>
    ELSE IF endsWith(str, <<"y">>) THEN dropLast(str) \o <<"i", "e", "s">>
    ELSE IF \/ endsWith(str, <<"s">>) \/ endsWith(str, <<"x">>)
            \/ endsWith(str, <<"c", "h">>) \/ endsWith(str, <<"s", "h">>)
    THEN str \o <<"e", "s">>
    ELSE str \o <<"s">>

InitHelpers ==
    /\ pc = "start"
    /\ fn = "none"
    /\ segs = <<>>
    /\ input \in NameInputs
    /\ env = NoEnv
    /\ out = NotCalled
    /\ files = NoFiles
    /\ console = <<>>
    /\ templateCache = EmptyCache
    /\ renderers = <<>>
    /\ history = <<>>

\* {{camelCase str}}
CamelCaseHelper ==
    /\ pc = "start"
    /\ pc' = "done"
    /\ fn' = "camelCase"
    /\ out' = Returned(camelCaseHelper(input))
    /\ UNCHANGED <<segs, input, env, files, console, engine>>

\* {{pascalCase str}}
PascalCaseHelper ==
    /\ pc = "start"
    /\ pc' = "done"
    /\ fn' = "pascalCase"
    /\ out' = Returned(pascalCaseHelper(input))
    /\ UNCHANGED <<segs, input, env, files, console, engine>>

\* {{kebabCase str}}
KebabCaseHelper ==
    /\ pc = "start"
    /\ pc' = "done"
    /\ fn' = "kebabCase"
    /\ out' = Returned(kebabCaseHelper(input))
    /\ UNCHANGED <<segs, input, env, files, console, engine>>

\* {{snakeCase str}}
SnakeCaseHelper ==
    /\ pc = "start"
    /\ pc' = "done"
    /\ fn' = "snakeCase"
    /\ out' = Returned(snakeCaseHelper(input))
    /\ UNCHANGED <<segs, input, env, files, console, engine>>

\* {{pluralize str}}
PluralizeHelper ==
    /\ pc = "start"
    /\ pc' = "done"
    /\ fn' = "pluralize"
    /\ out' = Returned(pluralizeHelper(input))
    /\ UNCHANGED <<segs, input, env, files, console, engine>>

NextHelpers ==
    CamelCaseHelper \/ PascalCaseHelper \/ KebabCaseHelper \/ SnakeCaseHelper \/ PluralizeHelper

SpecHelpers == InitHelpers /\ [][NextHelpers]_vars

----------------------------------------------------------------------------
(* Properties of the template helpers *)

HelperCalled(name) == pc = "done" /\ fn = name /\ input # <<>>

\* C26: for every non-empty input the helpers camelCase, pascalCase, kebabCase,
\* snakeCase and pluralize return what toCamelCase, toPascalCase,
\* toKebabCase, toSnakeCase and pluralize of the naming library return.
C26_HelpersAreLibrary ==
    /\ HelperCalled("kebabCase") => out.value = toKebabCase(input)
    /\ HelperCalled("snakeCase") => out.value = toSnakeCase(input)
    /\ HelperCalled("camelCase") => out.value = toCamelCase(input)
    /\ HelperCalled("pascalCase") => out.value = toPascalCase(input)
    /\ HelperCalled("pluralize") => out.value = pluralize(input)

\* ---------------------------------------------------------------------------
\* Import paths and file location of a generated use case.

IsRelativeSpecifier(p) == startsWith(p, <<".", "/">>) \/ startsWith(p, <<".", ".", "/">>)

\* C27: whatever directories the Metadata names, the repositoryImportPath and
\* the entityImportPath the use-case orchestrator hands to the template are
\* both relative specifiers: each starts with './' or '../'.
C27_RelativeImports ==
    OrchestratorRendered =>
        /\ IsRelativeSpecifier(HandedContext.repositoryImportPath)
        /\ IsRelativeSpecifier(HandedContext.entityImportPath)

UseCaseFileWritten ==
    /\ pc = "done"
    /\ fn = "generate use-case"
    /\ files # {}

\* C28: the file 'generate use-case' writes lies at the orchestrator's own
\* logical path, the currentFilePath it computed from the Metadata's
\* paths.application.useCases directory.
C28_WrittenAtLogicalPath ==
    UseCaseFileWritten =>
        \A f \in files : f.path = HandedContext.currentFilePath


----------------------------------------------------------------------------
(* The DEFAULT_METADATA object of metadata-reader.ts as a value that calls
   can write to: env.defaults is the object's current content *)

MaxMetadataCalls == 3

\* getMetadata(projectRoot), reading the module's object as it is at the call
getMetadataOf(defaults, file) ==
    IF pathExists(file)
    THEN LET content == readJson(file)
         IN  IF content.threw
             THEN [value |-> defaults, warned |-> <<CouldNotRead>>]
             ELSE [value |-> mergeMetadata(defaults, content.value), warned |-> <<>>]
    ELSE [value |-> defaults, warned |-> <<>>]

\* getMetadataSync(projectRoot), reading the module's object as it is at the call
getMetadataSyncOf(defaults, file) ==
    IF pathExists(file)
    THEN LET content == readJson(file)
         IN  IF content.threw
             THEN [value |-> defaults, warned |-> <<>>]
             ELSE [value |-> mergeMetadata(defaults, content.value), warned |-> <<>>]
    ELSE [value |-> defaults, warned |-> <<>>]

\* { ...DEFAULT_METADATA }
getDefaultMetadata(defaults) == spread(defaults, EmptyObject)

GrpcAdapter == <<"@", "s", "t", "r", "u", "k", "t", "o", "s", "/", "a", "d", "a", "p", "t", "e", "r", "-", "g", "r", "p", "c">>

\* a variant that fills the module's object in place:
\* Object.assign(DEFAULT_METADATA, { framework, options })
generateMetadataContentInPlace(defaults, framework, options) ==
    LET metadata == spread(defaults, [framework |-> framework, options |-> options])
        written ==
            IF framework = <<"g", "r", "p", "c">>
            THEN [metadata EXCEPT !.coreImports.GrpcContextData = GrpcAdapter]
            ELSE metadata
    IN  [content |-> JsonFile(written), defaults |-> written]

\* generateMetadataContent(framework, options): the JSON text returned and the
\* module's object afterwards. metadata is a shallow copy, so metadata.coreImports
\* is the object DEFAULT_METADATA.coreImports and the assignment lands in both.
generateMetadataContent(defaults, framework, options) ==
    LET metadata == spread(defaults, [framework |-> framework, options |-> options])
        written ==
            IF framework = <<"g", "r", "p", "c">>
            THEN [metadata EXCEPT !.coreImports.GrpcContextData = GrpcAdapter]
            ELSE metadata
    IN  [content |-> JsonFile(written),
         defaults |-> IF framework = <<"g", "r", "p", "c">>
                      THEN [defaults EXCEPT !.coreImports.GrpcContextData = GrpcAdapter]
                      ELSE defaults]

Frameworks == {<<"e", "x", "p", "r", "e", "s", "s">>, <<"f", "a", "s", "t", "i", "f", "y">>, <<"g", "r", "p", "c">>}

ProjectOptions == {EmptyObject, [useAuth |-> TRUE], [persistence |-> <<"p", "o", "s", "t", "g", "r", "e", "s">>]}

\* what <root>/config/struktos.metadata.json holds under the roots a call can name
ConfigFiles ==
    { AbsentFile, UnparsableFile,
      JsonFile([framework |-> <<"g", "r", "p", "c">>]),
      JsonFile([coreImports |-> [GrpcContextData |-> <<"m", "i", "n", "e">>], paths |-> [protos |-> <<"a", "p", "i">>]]) }

InitDefaults ==
    /\ pc = "start"
    /\ fn = "none"
    /\ segs = <<>>
    /\ input = EmptyObject
    /\ env = [defaults |-> DEFAULT_METADATA, templates |-> PlainDisk, today |-> 1]
    /\ out = NotCalled
    /\ files = NoFiles
    /\ console = <<>>
    /\ templateCache = EmptyCache
    /\ renderers = <<>>
    /\ history = <<>>

\* await getMetadata(root)
GetMetadataOfRoot ==
    /\ Len(history) < MaxMetadataCalls
    /\ \E file \in ConfigFiles :
          LET read == getMetadataOf(env.defaults, file)
          IN  /\ input' = [config |-> file]
              /\ out' = Returned(read.value)
              /\ console' = read.warned
    /\ pc' = "done"
    /\ fn' = "getMetadata"
    /\ history' = Append(history, <<"getMetadata">>)
    /\ UNCHANGED <<segs, env, files, templateCache, renderers>>

\* getMetadataSync(root)
GetMetadataSyncOfRoot ==
    /\ Len(history) < MaxMetadataCalls
    /\ \E file \in ConfigFiles :
          LET read == getMetadataSyncOf(env.defaults, file)
          IN  /\ input' = [config |-> file]
              /\ out' = Returned(read.value)
              /\ console' = read.warned
    /\ pc' = "done"
    /\ fn' = "getMetadataSync"
    /\ history' = Append(history, <<"getMetadataSync">>)
    /\ UNCHANGED <<segs, env, files, templateCache, renderers>>

\* getDefaultMetadata()
GetDefaultMetadata ==
    /\ Len(history) < MaxMetadataCalls
    /\ input' = EmptyObject
    /\ out' = Returned(getDefaultMetadata(env.defaults))
    /\ console' = <<>>
    /\ pc' = "done"
    /\ fn' = "getDefaultMetadata"
    /\ history' = Append(history, <<"getDefaultMetadata">>)
    /\ UNCHANGED <<segs, env, files, templateCache, renderers>>

\* generateMetadataContent(framework, options)
GenerateMetadataContent ==
    /\ Len(history) < MaxMetadataCalls
    /\ \E framework \in Frameworks, options \in ProjectOptions :
          LET call == generateMetadataContent(env.defaults, framework, options)
          IN  /\ input' = [framework |-> framework, options |-> options]
              /\ out' = Returned(call.content)
              /\ env' = [env EXCEPT !.defaults = call.defaults]
              /\ history' = Append(history, <<"generateMetadataContent", framework>>)
    /\ console' = <<>>
    /\ pc' = "done"
    /\ fn' = "generateMetadataContent"
    /\ UNCHANGED <<segs, files, templateCache, renderers>>

\* new TemplateRenderer({ projectRoot: root }).render('use-case/default', data)
RenderUnderRoot ==
    /\ Len(history) < MaxMetadataCalls
    /\ \E file \in ConfigFiles :
          LET renderer == [TemplateRenderer(1, <<>>, file) EXCEPT
                             !.metadata = getMetadataSyncOf(env.defaults, file).value]
              run == TemplateRenderer_render(renderer, UseCaseTemplate, RenderData,
                                             templateCache, env.templates, env.today)
          IN  /\ input' = [config |-> file]
              /\ renderers' = <<renderer>>
              /\ templateCache' = run.cache
              /\ out' = run.result
    /\ console' = <<>>
    /\ pc' = "done"
    /\ fn' = "render"
    /\ history' = Append(history, <<"render">>)
    /\ UNCHANGED <<segs, env, files>>

NextDefaults ==
    \/ GetMetadataOfRoot
    \/ GetMetadataSyncOfRoot
    \/ GetDefaultMetadata
    \/ GenerateMetadataContent
    \/ RenderUnderRoot

SpecDefaults == InitDefaults /\ [][NextDefaults]_vars

ReadWithoutOverride ==
    /\ pc = "done"
    /\ fn = "getMetadataSync"
    /\ ~pathExists(input.config)

\* C29: after any sequence of getMetadata, getMetadataSync, getDefaultMetadata,
\* generateMetadataContent and render calls every field of the built-in default
\* Metadata has its hard-coded value, and a getMetadataSync without an override
\* file returns those defaults.
C29_DefaultsNeverModified ==
    /\ env.defaults = DEFAULT_METADATA
    /\ ReadWithoutOverride => out = Returned(DEFAULT_METADATA)

C29_Witness ==
    /\ ReadWithoutOverride
    /\ \E i \in 1..Len(history) : history[i] = <<"generateMetadataContent", <<"g", "r", "p", "c">>>>
    /\ \E i \in 1..Len(history) : history[i] = <<"render">>
    /\ out = Returned(DEFAULT_METADATA)


----------------------------------------------------------------------------
(* The 'new' command (commands/generate.ts, createProject): the disk is a set
   of entries [path, kind, by]; paths are relative to the working directory *)

Dir(name, children) == [name |-> name, leaf |-> FALSE, children |-> children]
Leaf(name) == [name |-> name, leaf |-> TRUE, children |-> <<>>]

PROJECT_STRUCTURE ==
    << Dir(<<"s", "r", "c">>,
           << Dir(<<"d", "o", "m", "a", "i", "n">>, <<Leaf(<<"e", "n", "t", "i", "t", "i", "e", "s">>), Leaf(<<"r", "e", "p", "o", "s", "i", "t", "o", "r", "i", "e", "s">>), Leaf(<<"s", "e", "r", "v", "i", "c", "e", "s">>)>>),
              Dir(<<"a", "p", "p", "l", "i", "c", "a", "t", "i", "o", "n">>, <<Leaf(<<"u", "s", "e", "-", "c", "a", "s", "e", "s">>), Leaf(<<"p", "o", "r", "t", "s">>)>>),
              Dir(<<"i", "n", "f", "r", "a", "s", "t", "r", "u", "c", "t", "u", "r", "e">>,
                  <<Dir(<<"a", "d", "a", "p", "t", "e", "r", "s">>, <<Leaf(<<"h", "t", "t", "p">>), Leaf(<<"g", "r", "p", "c">>), Leaf(<<"p", "e", "r", "s", "i", "s", "t", "e", "n", "c", "e">>)>>)>>),
              Dir(<<"c", "o", "m", "m", "o", "n">>, <<Leaf(<<"t", "y", "p", "e", "s">>), Leaf(<<"u", "t", "i", "l", "s">>)>>) >>),
       Dir(<<"t", "e", "s", "t", "s">>, <<Leaf(<<"u", "n", "i", "t">>), Leaf(<<"i", "n", "t", "e", "g", "r", "a", "t", "i", "o", "n">>)>>),
       Leaf(<<"c", "o", "n", "f", "i", "g">>),
       Leaf(<<"p", "r", "o", "t", "o", "s">>) >>

\* the file-system calls createProject awaits, one step each
EnsureDir(path) == [op |-> "ensureDir", path |-> path, by |-> "ensureDir"]
WriteFile(path, by) == [op |-> "writeFile", path |-> path, by |-> by]
Copy(path, by) == [op |-> "copy", path |-> path, by |-> by]

RECURSIVE createDirs(_, _, _)
\* createDirs of createProjectStructure: the steps in the order they are awaited
createDirs(basePath, structure, includeGrpc) ==
    IF Len(structure) = 0 THEN <<>>
    ELSE LET entry == Head(structure)
             dirPath == pathJoin(basePath, entry.name)
             rest == createDirs(basePath, Tail(structure), includeGrpc)
         IN  IF entry.name \in {<<"g", "r", "p", "c">>, <<"p", "r", "o", "t", "o", "s">>} /\ ~includeGrpc
             THEN rest
             ELSE <<EnsureDir(dirPath)>>
                  \o (IF entry.leaf
                      THEN <<WriteFile(pathJoin(dirPath, <<".", "g", "i", "t", "k", "e", "e", "p">>), "gitkeep")>>
                      ELSE createDirs(dirPath, entry.children, includeGrpc))
                  \o rest

createProjectStructure(projectPath, includeGrpc) ==
    createDirs(projectPath, PROJECT_STRUCTURE, includeGrpc)

\* the steps inside the try block of createProject
createProjectSteps(projectPath, config) ==
    LET isGrpc == config.framework = <<"g", "r", "p", "c">>
    IN  <<EnsureDir(projectPath)>>
        \o createProjectStructure(projectPath, isGrpc)
        \o << WriteFile(pathJoin(projectPath, <<"p", "a", "c", "k", "a", "g", "e", ".", "j", "s", "o", "n">>), "generatePackageJson"),
              WriteFile(pathJoin(projectPath, <<"t", "s", "c", "o", "n", "f", "i", "g", ".", "j", "s", "o", "n">>), "generateTsConfig"),
              WriteFile(pathJoin(projectPath, <<"s", "r", "c", "/", "m", "a", "i", "n", ".", "t", "s">>), "generateMainTs"),
              WriteFile(pathJoin(projectPath, <<".", "e", "n", "v", ".", "e", "x", "a", "m", "p", "l", "e">>), "generateEnvExample"),
              Copy(pathJoin(projectPath, <<".", "e", "n", "v">>), "generateEnvExample"),
              EnsureDir(pathJoin(projectPath, <<"c", "o", "n", "f", "i", "g">>)),
              WriteFile(pathJoin(projectPath, <<"c", "o", "n", "f", "i", "g", "/", "s", "t", "r", "u", "k", "t", "o", "s", ".", "m", "e", "t", "a", "d", "a", "t", "a", ".", "j", "s", "o", "n">>),
                        "generateMetadataConfig"),
              WriteFile(pathJoin(projectPath, <<".", "g", "i", "t", "i", "g", "n", "o", "r", "e">>), "generateGitignore") >>
        \o (IF config.useDocker
            THEN << WriteFile(pathJoin(projectPath, <<"D", "o", "c", "k", "e", "r", "f", "i", "l", "e">>), "generateDockerfile"),
                    WriteFile(pathJoin(projectPath, <<"d", "o", "c", "k", "e", "r", "-", "c", "o", "m", "p", "o", "s", "e", ".", "y", "m", "l">>),
                              "generateDockerCompose") >>
            ELSE <<>>)
        \o <<WriteFile(pathJoin(projectPath, <<"R", "E", "A", "D", "M", "E", ".", "m", "d">>), "generateReadme")>>
        \o (IF isGrpc
            THEN <<WriteFile(pathJoin(projectPath, <<"p", "r", "o", "t", "o", "s", "/", "h", "e", "a", "l", "t", "h", ".", "p", "r", "o", "t", "o">>),
                             "generateExampleProto")>>
            ELSE <<>>)

\* fs.pathExists(p)
pathExistsOn(disk, p) == \E e \in disk : e.path = p

\* the disk after one step has succeeded
stepDone(disk, step) ==
    { e \in disk : e.path # step.path }
    \cup { [path |-> step.path,
            kind |-> IF step.op = "ensureDir" THEN "dir" ELSE "file",
            by |-> step.by] }

RECURSIVE stepsDone(_, _, _)
\* the disk after the first n steps
stepsDone(disk, steps, n) ==
    IF n = 0 THEN disk ELSE stepDone(stepsDone(disk, steps, n - 1), steps[n])

\* fs.remove(p): p and everything below it
remove(disk, p) ==
    { e \in disk : ~(e.path = p \/ startsWith(e.path, p \o <<"/">>)) }

\* a variant whose catch block rethrows without cleaning up
createProjectNoCleanup(config, disk, failAt, partial) ==
    LET projectPath == config.name
        steps == createProjectSteps(projectPath, config)
        reached == stepsDone(disk, steps, IF partial THEN failAt ELSE failAt - 1)
    IN  IF pathExistsOn(disk, projectPath)
        THEN [disk |-> disk,
              result |-> CommandResult(FALSE, Exit1, "already exists", config.name)]
        ELSE IF failAt \in 1..Len(steps)
        THEN [disk |-> reached,
              result |-> CommandResult(TRUE, Exit1, "Error creating project", steps[failAt].path)]
        ELSE [disk |-> stepsDone(disk, steps, Len(steps)),
              result |-> CommandResult(FALSE, Exit0, "none", <<>>)]

\* createProject under the try/catch of the 'new' command. Step failAt throws
\* (none when failAt is not a step); partial tells whether the failing call
\* left its entry behind.
createProject(config, disk, failAt, partial) ==
    LET projectPath == config.name
        steps == createProjectSteps(projectPath, config)
        reached == stepsDone(disk, steps, IF partial THEN failAt ELSE failAt - 1)
    IN  IF pathExistsOn(disk, projectPath)
        THEN [disk |-> disk,
              result |-> CommandResult(FALSE, Exit1, "already exists", config.name)]
        ELSE IF failAt \in 1..Len(steps)
        THEN [disk |-> IF pathExistsOn(reached, projectPath)
                       THEN remove(reached, projectPath)
                       ELSE reached,
              result |-> CommandResult(TRUE, Exit1, "Error creating project", steps[failAt].path)]
        ELSE [disk |-> stepsDone(disk, steps, Len(steps)),
              result |-> CommandResult(FALSE, Exit0, "none", <<>>)]

ProjectNames == {<<"a", "p", "p">>, <<"m", "y", "-", "a", "p", "i">>}

ProjectFrameworks == {<<"e", "x", "p", "r", "e", "s", "s">>, <<"g", "r", "p", "c">>}

ProjectConfigs ==
    [ name : ProjectNames, framework : ProjectFrameworks, useDocker : BOOLEAN ]

Existing(path, kind) == [path |-> path, kind |-> kind, by |-> "before"]

\* what the working directory holds before the run
DisksBefore(name) ==
    LET others == { Existing(name \o <<"-", "o", "l", "d">>, "dir"),
                    Existing(name \o <<"-", "o", "l", "d", "/", "n", "o", "t", "e", "s", ".", "t", "x", "t">>, "file") }
    IN  { others,
          others \cup { Existing(name, "dir"), Existing(pathJoin(name, <<"n", "o", "t", "e", "s", ".", "t", "x", "t">>), "file") },
          others \cup { Existing(name, "dir") },
          others \cup { Existing(name, "file") } }

MostSteps == Len(createProjectSteps(<<"a", "p", "p">>, [name |-> <<"a", "p", "p">>, framework |-> <<"g", "r", "p", "c">>, useDocker |-> TRUE]))

InitNew ==
    /\ pc = "start"
    /\ fn = "none"
    /\ segs = <<>>
    /\ input \in ProjectConfigs
    /\ \E before \in DisksBefore(input.name), failAt \in 0..MostSteps, partial \in BOOLEAN :
          /\ env = [disk |-> before, failAt |-> failAt, partial |-> partial]
          /\ files = before
    /\ out = NotCalled
    /\ console = <<>>
    /\ templateCache = EmptyCache
    /\ renderers = <<>>
    /\ history = <<>>

\* struktos new, answered with the configuration in input
NewProject ==
    /\ pc = "start"
    /\ pc' = "done"
    /\ fn' = "new"
    /\ LET run == createProject(input, files, env.failAt, env.partial)
       IN  /\ files' = run.disk
           /\ out' = run.result
    /\ UNCHANGED <<segs, input, env, console, engine>>

NextNew == NewProject

SpecNew == InitNew /\ [][NextNew]_vars

InProject(e) ==
    \/ e.path = input.name
    \/ /\ Len(e.path) > Len(input.name)
       /\ SubSeq(e.path, 1, Len(input.name) + 1) = input.name \o <<"/">>

ExistedBefore == \E e \in env.disk : e.path = input.name

HasFile(rel) == \E e \in files : e.path = input.name \o <<"/">> \o rel /\ e.kind = "file"

CompleteProject ==
    /\ \E e \in files : e.path = input.name /\ e.kind = "dir"
    /\ HasFile(<<"p", "a", "c", "k", "a", "g", "e", ".", "j", "s", "o", "n">>)
    /\ HasFile(<<"t", "s", "c", "o", "n", "f", "i", "g", ".", "j", "s", "o", "n">>)
    /\ HasFile(<<"s", "r", "c", "/", "m", "a", "i", "n", ".", "t", "s">>)
    /\ HasFile(<<".", "e", "n", "v", ".", "e", "x", "a", "m", "p", "l", "e">>)
    /\ HasFile(<<".", "e", "n", "v">>)
    /\ HasFile(<<"c", "o", "n", "f", "i", "g", "/", "s", "t", "r", "u", "k", "t", "o", "s", ".", "m", "e", "t", "a", "d", "a", "t", "a", ".", "j", "s", "o", "n">>)
    /\ HasFile(<<".", "g", "i", "t", "i", "g", "n", "o", "r", "e">>)
    /\ HasFile(<<"R", "E", "A", "D", "M", "E", ".", "m", "d">>)
    /\ HasFile(<<"s", "r", "c", "/", "d", "o", "m", "a", "i", "n", "/", "e", "n", "t", "i", "t", "i", "e", "s", "/", ".", "g", "i", "t", "k", "e", "e", "p">>)
    /\ HasFile(<<"t", "e", "s", "t", "s", "/", "i", "n", "t", "e", "g", "r", "a", "t", "i", "o", "n", "/", ".", "g", "i", "t", "k", "e", "e", "p">>)
    /\ input.useDocker => (HasFile(<<"D", "o", "c", "k", "e", "r", "f", "i", "l", "e">>) /\ HasFile(<<"d", "o", "c", "k", "e", "r", "-", "c", "o", "m", "p", "o", "s", "e", ".", "y", "m", "l">>))
    /\ (input.framework = <<"g", "r", "p", "c">>) => HasFile(<<"p", "r", "o", "t", "o", "s", "/", "h", "e", "a", "l", "t", "h", ".", "p", "r", "o", "t", "o">>)

NewRan == pc = "done" /\ fn = "new"

====
